---- MODULE Spec2Model ----
(***************************************************************************)
(* A model of the NumKa transpiler (src/numka.py): the import driver, the  *)
(* prototype parser, the instance compiler with its cache and segment      *)
(* splitting, and the output assembler.                                    *)
(*                                                                         *)
(* Text is modelled as Python models it: a str is a sequence of            *)
(* characters, here a sequence of one-character strings.  A character      *)
(* outside ASCII (the VisK99 dialect uses some) is one element spelled     *)
(* "U+xxxx".  A list of lines is a sequence of such sequences.             *)
(***************************************************************************)
EXTENDS Integers, Sequences, FiniteSets, TLC

(***************************************************************************)
(* Python str operations used by the compiler.                             *)
(***************************************************************************)

NL == "\n"

\* The characters str.strip() strips and str.isspace() is true of
Blank == {"\t", NL, "U+000B", "\f", "\r", "U+001C", "U+001D", "U+001E", "U+001F", " ",
          "U+0085", "U+00A0", "U+1680", "U+2000", "U+2001", "U+2002", "U+2003",
          "U+2004", "U+2005", "U+2006", "U+2007", "U+2008", "U+2009", "U+200A",
          "U+2028", "U+2029", "U+202F", "U+205F", "U+3000"}

\* s[n:] for n >= 0
Drop(s, n) == IF n >= Len(s) THEN <<>> ELSE SubSeq(s, n + 1, Len(s))

\* s[:n] for n >= 0
Take(s, n) == IF n >= Len(s) THEN s ELSE SubSeq(s, 1, n)

\* s[:-n] for n > 0
DropLast(s, n) == IF n >= Len(s) THEN <<>> ELSE SubSeq(s, 1, Len(s) - n)

\* s[-n:] for n > 0
TakeLast(s, n) == IF n >= Len(s) THEN s ELSE SubSeq(s, Len(s) - n + 1, Len(s))

StartsWith(s, p) == Len(s) >= Len(p) /\ SubSeq(s, 1, Len(p)) = p

EndsWith(s, p) == Len(s) >= Len(p) /\ SubSeq(s, Len(s) - Len(p) + 1, Len(s)) = p

\* c in s, for a character c
HasChar(s, c) == \E k \in 1..Len(s) : s[k] = c

\* The least and the greatest element of a non-empty set of integers
Min(S) == CHOOSE x \in S : \A y \in S : x <= y
Max(S) == CHOOSE x \in S : \A y \in S : x >= y

\* The n-th smallest element of a set of integers
Nth(S, n) == CHOOSE x \in S : Cardinality({y \in S : y <= x}) = n

\* The positions of s that hold something else than a character of set
Others(s, set) == {k \in 1..Len(s) : s[k] \notin set}

\* s.lstrip()
LStrip(s) == IF Others(s, Blank) = {} THEN <<>> ELSE SubSeq(s, Min(Others(s, Blank)), Len(s))

\* s.rstrip()
RStrip(s) == IF Others(s, Blank) = {} THEN <<>> ELSE SubSeq(s, 1, Max(Others(s, Blank)))

Strip(s) == LStrip(RStrip(s))

\* s.rstrip("{")
RStripBrace(s) ==
    IF Others(s, {"{"}) = {} THEN <<>> ELSE SubSeq(s, 1, Max(Others(s, {"{"})))

\* the 0-based index of the first occurrence of p in s at or after 0-based
\* position k, or -1 (str.find)
Find(s, p, k) ==
    LET at == {i \in k..(Len(s) - Len(p)) : SubSeq(s, i + 1, i + Len(p)) = p}
    IN  IF at = {} THEN -1 ELSE Min(at)

\* s.split(p, 1)[0]  and  s.split(p, 1)[1] (<<>> stands for a missing part;
\* SplitHas tells whether the split found p)
SplitHas(s, p) == Find(s, p, 0) >= 0
SplitHead(s, p) == IF SplitHas(s, p) THEN Take(s, Find(s, p, 0)) ELSE s
SplitRest(s, p) == IF SplitHas(s, p) THEN Drop(s, Find(s, p, 0) + Len(p)) ELSE <<>>

\* s.replace(p, r): the occurrences of p left to right, not overlapping
RECURSIVE Replace(_, _, _)
Replace(s, p, r) ==
    IF p = <<>> \/ Find(s, p, 0) < 0 THEN s
    ELSE Take(s, Find(s, p, 0)) \o r \o Replace(Drop(s, Find(s, p, 0) + Len(p)), p, r)

\* ''.join(lines)
RECURSIVE Join(_)
Join(ls) ==
    IF ls = <<>> THEN <<>>
    ELSE IF Len(ls) = 1 THEN ls[1]
    ELSE Join(SubSeq(ls, 1, Len(ls) \div 2)) \o Join(SubSeq(ls, Len(ls) \div 2 + 1, Len(ls)))

\* s * n
Times(s, n) == IF n <= 0 THEN <<>> ELSE [k \in 1..(Len(s) * n) |-> s[((k - 1) % Len(s)) + 1]]

Digits == <<"0","1","2","3","4","5","6","7","8","9">>

Lower == <<"a","b","c","d","e","f","g","h","i","j","k","l","m",
           "n","o","p","q","r","s","t","u","v","w","x","y","z">>
Upper == <<"A","B","C","D","E","F","G","H","I","J","K","L","M",
           "N","O","P","Q","R","S","T","U","V","W","X","Y","Z">>

\* The printable ASCII characters in code-point order: Ascii[k] is chr(31 + k)
\* (a string of TLA+ cannot hold the grave accent, which is spelled as the
\* characters outside ASCII are)
Ascii == <<
    " ", "!", "\"", "#", "$", "%", "&", "'", "(", ")", "*", "+", ",", "-", ".", "/",
    "0", "1", "2", "3", "4", "5", "6", "7", "8", "9", ":", ";", "<", "=", ">", "?",
    "@", "A", "B", "C", "D", "E", "F", "G", "H", "I", "J", "K", "L", "M", "N", "O",
    "P", "Q", "R", "S", "T", "U", "V", "W", "X", "Y", "Z", "[", "\\", "]", "^", "_",
    "U+0060", "a", "b", "c", "d", "e", "f", "g", "h", "i", "j", "k", "l", "m", "n", "o",
    "p", "q", "r", "s", "t", "u", "v", "w", "x", "y", "z", "{", "|", "}", "~" >>

\* ord(c): the code point of a character.  A character outside ASCII is
\* spelled "U+" and its code point in hexadecimal
Ord(c) ==
    LET code[k \in 2..Len(c)] ==
            IF k = 2 THEN 0
            ELSE 16 * code[k - 1]
                 + (CHOOSE v \in 0..15 :
                        <<"0","1","2","3","4","5","6","7","8","9","A","B","C","D","E","F">>[v + 1]
                        = SubSeq(c, k, k))
    IN  IF c = NL THEN 10
        ELSE IF c = "\t" THEN 9
        ELSE IF c = "\r" THEN 13
        ELSE IF c = "\f" THEN 12
        ELSE IF Len(c) = 1 THEN 31 + (CHOOSE k \in 1..95 : Ascii[k] = c)
        ELSE code[Len(c)]

\* chr(n)
Chr(n) ==
    LET Spelled(width) ==
            LET text[k \in 0..width] ==
                    IF k = 0 THEN "U+"
                    ELSE text[k - 1]
                         \o <<"0","1","2","3","4","5","6","7","8","9","A","B","C","D","E","F">>[
                                ((n \div (16 ^ (width - k))) % 16) + 1]
            IN  text[width]
    IN  IF n = 10 THEN NL
        ELSE IF n = 9 THEN "\t"
        ELSE IF n = 13 THEN "\r"
        ELSE IF n = 12 THEN "\f"
        ELSE IF n \in 32..126 THEN Ascii[n - 31]
        ELSE Spelled(IF n < 65536 THEN 4 ELSE IF n < 1048576 THEN 5 ELSE 6)

\* The simple case mappings of str.upper(), four numbers a run: the code
\* points first, first + step, .., last map to to, to + step, ..
\* (first, last, step, to)
UpperRuns == <<
    97, 122, 1, 65, 181, 181, 1, 924, 224, 246, 1, 192,
    248, 254, 1, 216, 255, 255, 1, 376, 257, 303, 2, 256,
    305, 305, 1, 73, 307, 311, 2, 306, 314, 328, 2, 313,
    331, 375, 2, 330, 378, 382, 2, 377, 383, 383, 1, 83,
    384, 384, 1, 579, 387, 389, 2, 386, 392, 392, 1, 391,
    396, 396, 1, 395, 402, 402, 1, 401, 405, 405, 1, 502,
    409, 409, 1, 408, 410, 410, 1, 573, 414, 414, 1, 544,
    417, 421, 2, 416, 424, 424, 1, 423, 429, 429, 1, 428,
    432, 432, 1, 431, 436, 438, 2, 435, 441, 441, 1, 440,
    445, 445, 1, 444, 447, 447, 1, 503, 453, 453, 1, 452,
    454, 454, 1, 452, 456, 456, 1, 455, 457, 457, 1, 455,
    459, 459, 1, 458, 460, 460, 1, 458, 462, 476, 2, 461,
    477, 477, 1, 398, 479, 495, 2, 478, 498, 498, 1, 497,
    499, 499, 1, 497, 501, 501, 1, 500, 505, 543, 2, 504,
    547, 563, 2, 546, 572, 572, 1, 571, 575, 576, 1, 11390,
    578, 578, 1, 577, 583, 591, 2, 582, 592, 592, 1, 11375,
    593, 593, 1, 11373, 594, 594, 1, 11376, 595, 595, 1, 385,
    596, 596, 1, 390, 598, 599, 1, 393, 601, 601, 1, 399,
    603, 603, 1, 400, 604, 604, 1, 42923, 608, 608, 1, 403,
    609, 609, 1, 42924, 611, 611, 1, 404, 613, 613, 1, 42893,
    614, 614, 1, 42922, 616, 616, 1, 407, 617, 617, 1, 406,
    618, 618, 1, 42926, 619, 619, 1, 11362, 620, 620, 1, 42925,
    623, 623, 1, 412, 625, 625, 1, 11374, 626, 626, 1, 413,
    629, 629, 1, 415, 637, 637, 1, 11364, 640, 640, 1, 422,
    642, 642, 1, 42949, 643, 643, 1, 425, 647, 647, 1, 42929,
    648, 648, 1, 430, 649, 649, 1, 580, 650, 651, 1, 433,
    652, 652, 1, 581, 658, 658, 1, 439, 669, 669, 1, 42930,
    670, 670, 1, 42928, 837, 837, 1, 921, 881, 883, 2, 880,
    887, 887, 1, 886, 891, 893, 1, 1021, 940, 940, 1, 902,
    941, 943, 1, 904, 945, 961, 1, 913, 962, 962, 1, 931,
    963, 971, 1, 931, 972, 972, 1, 908, 973, 974, 1, 910,
    976, 976, 1, 914, 977, 977, 1, 920, 981, 981, 1, 934,
    982, 982, 1, 928, 983, 983, 1, 975, 985, 1007, 2, 984,
    1008, 1008, 1, 922, 1009, 1009, 1, 929, 1010, 1010, 1, 1017,
    1011, 1011, 1, 895, 1013, 1013, 1, 917, 1016, 1016, 1, 1015,
    1019, 1019, 1, 1018, 1072, 1103, 1, 1040, 1104, 1119, 1, 1024,
    1121, 1153, 2, 1120, 1163, 1215, 2, 1162, 1218, 1230, 2, 1217,
    1231, 1231, 1, 1216, 1233, 1327, 2, 1232, 1377, 1414, 1, 1329,
    4304, 4346, 1, 7312, 4349, 4351, 1, 7357, 5112, 5117, 1, 5104,
    7296, 7296, 1, 1042, 7297, 7297, 1, 1044, 7298, 7298, 1, 1054,
    7299, 7300, 1, 1057, 7301, 7301, 1, 1058, 7302, 7302, 1, 1066,
    7303, 7303, 1, 1122, 7304, 7304, 1, 42570, 7545, 7545, 1, 42877,
    7549, 7549, 1, 11363, 7566, 7566, 1, 42950, 7681, 7829, 2, 7680,
    7835, 7835, 1, 7776, 7841, 7935, 2, 7840, 7936, 7943, 1, 7944,
    7952, 7957, 1, 7960, 7968, 7975, 1, 7976, 7984, 7991, 1, 7992,
    8000, 8005, 1, 8008, 8017, 8023, 2, 8025, 8032, 8039, 1, 8040,
    8048, 8049, 1, 8122, 8050, 8053, 1, 8136, 8054, 8055, 1, 8154,
    8056, 8057, 1, 8184, 8058, 8059, 1, 8170, 8060, 8061, 1, 8186,
    8112, 8113, 1, 8120, 8126, 8126, 1, 921, 8144, 8145, 1, 8152,
    8160, 8161, 1, 8168, 8165, 8165, 1, 8172, 8526, 8526, 1, 8498,
    8560, 8575, 1, 8544, 8580, 8580, 1, 8579, 9424, 9449, 1, 9398,
    11312, 11359, 1, 11264, 11361, 11361, 1, 11360, 11365, 11365, 1, 570,
    11366, 11366, 1, 574, 11368, 11372, 2, 11367, 11379, 11379, 1, 11378,
    11382, 11382, 1, 11381, 11393, 11491, 2, 11392, 11500, 11502, 2, 11499,
    11507, 11507, 1, 11506, 11520, 11557, 1, 4256, 11559, 11559, 1, 4295,
    11565, 11565, 1, 4301, 42561, 42605, 2, 42560, 42625, 42651, 2, 42624,
    42787, 42799, 2, 42786, 42803, 42863, 2, 42802, 42874, 42876, 2, 42873,
    42879, 42887, 2, 42878, 42892, 42892, 1, 42891, 42897, 42899, 2, 42896,
    42900, 42900, 1, 42948, 42903, 42921, 2, 42902, 42933, 42947, 2, 42932,
    42952, 42954, 2, 42951, 42961, 42961, 1, 42960, 42967, 42969, 2, 42966,
    42998, 42998, 1, 42997, 43859, 43859, 1, 42931, 43888, 43967, 1, 5024,
    65345, 65370, 1, 65313, 66600, 66639, 1, 66560, 66776, 66811, 1, 66736,
    66967, 67003, 2, 66928, 66968, 66976, 2, 66929, 66980, 66992, 2, 66941,
    66996, 67000, 2, 66957, 67004, 67004, 1, 66965, 68800, 68850, 1, 68736,
    71872, 71903, 1, 71840, 93792, 93823, 1, 93760, 125218, 125251, 1, 125184 >>

\* The full case mappings of str.upper(), five numbers a code point whose
\* upper case is more than one character: the code point, the number of
\* characters it becomes and their code points (0 for none)
UpperFull == <<
    223, 2, 83, 83, 0, 329, 2, 700, 78, 0, 496, 2, 74, 780, 0,
    912, 3, 921, 776, 769, 944, 3, 933, 776, 769, 1415, 2, 1333, 1362, 0,
    7830, 2, 72, 817, 0, 7831, 2, 84, 776, 0, 7832, 2, 87, 778, 0,
    7833, 2, 89, 778, 0, 7834, 2, 65, 702, 0, 8016, 2, 933, 787, 0,
    8018, 3, 933, 787, 768, 8020, 3, 933, 787, 769, 8022, 3, 933, 787, 834,
    8064, 2, 7944, 921, 0, 8065, 2, 7945, 921, 0, 8066, 2, 7946, 921, 0,
    8067, 2, 7947, 921, 0, 8068, 2, 7948, 921, 0, 8069, 2, 7949, 921, 0,
    8070, 2, 7950, 921, 0, 8071, 2, 7951, 921, 0, 8072, 2, 7944, 921, 0,
    8073, 2, 7945, 921, 0, 8074, 2, 7946, 921, 0, 8075, 2, 7947, 921, 0,
    8076, 2, 7948, 921, 0, 8077, 2, 7949, 921, 0, 8078, 2, 7950, 921, 0,
    8079, 2, 7951, 921, 0, 8080, 2, 7976, 921, 0, 8081, 2, 7977, 921, 0,
    8082, 2, 7978, 921, 0, 8083, 2, 7979, 921, 0, 8084, 2, 7980, 921, 0,
    8085, 2, 7981, 921, 0, 8086, 2, 7982, 921, 0, 8087, 2, 7983, 921, 0,
    8088, 2, 7976, 921, 0, 8089, 2, 7977, 921, 0, 8090, 2, 7978, 921, 0,
    8091, 2, 7979, 921, 0, 8092, 2, 7980, 921, 0, 8093, 2, 7981, 921, 0,
    8094, 2, 7982, 921, 0, 8095, 2, 7983, 921, 0, 8096, 2, 8040, 921, 0,
    8097, 2, 8041, 921, 0, 8098, 2, 8042, 921, 0, 8099, 2, 8043, 921, 0,
    8100, 2, 8044, 921, 0, 8101, 2, 8045, 921, 0, 8102, 2, 8046, 921, 0,
    8103, 2, 8047, 921, 0, 8104, 2, 8040, 921, 0, 8105, 2, 8041, 921, 0,
    8106, 2, 8042, 921, 0, 8107, 2, 8043, 921, 0, 8108, 2, 8044, 921, 0,
    8109, 2, 8045, 921, 0, 8110, 2, 8046, 921, 0, 8111, 2, 8047, 921, 0,
    8114, 2, 8122, 921, 0, 8115, 2, 913, 921, 0, 8116, 2, 902, 921, 0,
    8118, 2, 913, 834, 0, 8119, 3, 913, 834, 921, 8124, 2, 913, 921, 0,
    8130, 2, 8138, 921, 0, 8131, 2, 919, 921, 0, 8132, 2, 905, 921, 0,
    8134, 2, 919, 834, 0, 8135, 3, 919, 834, 921, 8140, 2, 919, 921, 0,
    8146, 3, 921, 776, 768, 8147, 3, 921, 776, 769, 8150, 2, 921, 834, 0,
    8151, 3, 921, 776, 834, 8162, 3, 933, 776, 768, 8163, 3, 933, 776, 769,
    8164, 2, 929, 787, 0, 8166, 2, 933, 834, 0, 8167, 3, 933, 776, 834,
    8178, 2, 8186, 921, 0, 8179, 2, 937, 921, 0, 8180, 2, 911, 921, 0,
    8182, 2, 937, 834, 0, 8183, 3, 937, 834, 921, 8188, 2, 937, 921, 0,
    64256, 2, 70, 70, 0, 64257, 2, 70, 73, 0, 64258, 2, 70, 76, 0,
    64259, 3, 70, 70, 73, 64260, 3, 70, 70, 76, 64261, 2, 83, 84, 0,
    64262, 2, 83, 84, 0, 64275, 2, 1348, 1350, 0, 64276, 2, 1348, 1333, 0,
    64277, 2, 1348, 1339, 0, 64278, 2, 1358, 1350, 0, 64279, 2, 1348, 1341, 0 >>

\* c.upper(), a str: one character, or the several of a full case mapping
UpperChar(c) ==
    LET Mapped(n, full, run) ==
            IF full = {} /\ run = {} THEN <<c>>
            ELSE [k \in 1..(IF full = {} THEN 1 ELSE UpperFull[Min(full) + 1]) |->
                     Chr(IF full = {} THEN UpperRuns[Min(run) + 3] + n - UpperRuns[Min(run)]
                         ELSE UpperFull[Min(full) + 1 + k])]
        Known(n) ==
            Mapped(n,
                   {k \in 1..Len(UpperFull) : k % 5 = 1 /\ UpperFull[k] = n},
                   {k \in 1..Len(UpperRuns) : /\ k % 4 = 1
                                              /\ n \in UpperRuns[k]..UpperRuns[k + 1]
                                              /\ (n - UpperRuns[k]) % UpperRuns[k + 2] = 0})
    IN  Known(Ord(c))

\* s.upper()
ToUpper(s) ==
    IF \A k \in 1..Len(s) : Len(s[k]) = 1
    THEN [k \in 1..Len(s) |-> IF \E j \in 1..26 : Lower[j] = s[k]
                              THEN Upper[CHOOSE j \in 1..26 : Lower[j] = s[k]]
                              ELSE s[k]]
    ELSE Join([k \in 1..Len(s) |-> UpperChar(s[k])])

\* str(n)
RECURSIVE StrNat(_)
StrNat(n) == IF n < 10 THEN <<Digits[n + 1]>> ELSE StrNat(n \div 10) \o <<Digits[(n % 10) + 1]>>

StrInt(n) == IF n < 0 THEN <<"-">> \o StrNat(-n) ELSE StrNat(n)

(***************************************************************************)
(* builtin_dialects: per dialect the exposed primitives (keyword ->        *)
(* lexeme), the reserved identifiers and the codegen keywords.             *)
(***************************************************************************)

Dialects == {"PyKarel/Kvm", "VisK99"}

\* builtin_dialects[d][0]: the keys in the dict's order, and the values
FnKeys == <<<<"s","t","e","p">>, <<"l","e","f","t">>, <<"p","i","c","k">>, <<"p","l","a","c","e">>, <<"s","t","o","p">>>>

builtin_fns_of(d) ==
    IF d = "PyKarel/Kvm"
    THEN <<<<"S","T","E","P">>, <<"L","E","F","T">>, <<"P","I","C","K">>, <<"P","L","A","C","E">>, <<"S","T","O","P">>>>
    ELSE <<<<"K","R","O","K">>, <<"V","L","E","V","O","-","V","B","O","K">>, <<"Z","V","E","D","N","I">>, <<"P","O","L","O","U+017D">>, <<"S","T","O","P">>>>

\* builtin_dialects[d][1]
builtit_reserved_of(d) ==
    IF d = "PyKarel/Kvm" THEN {<<"e","n","d">>, <<"u","n","t","i","l">>, <<"r","e","p","e","a","t">>} ELSE {<<"k","o","n","e","c">>, <<"d","o","k","u","d">>, <<"o","p","a","k","u","j">>}

\* builtin_dialects[d][2] (a record field cannot be named if, else or for-suffix)
builtin_cg_keywords_of(d) ==
    IF d = "PyKarel/Kvm"
    THEN [end |-> <<"E","N","D">>,
          if_ |-> <<"I","F">>,
          is |-> <<"I","S">>,
          not |-> <<"I","S","N","O","T">>,
          else_ |-> <<"E","N","D",","," ","E","L","S","E">>,
          while |-> <<"U","N","T","I","L">>,
          for |-> <<"R","E","P","E","A","T">>,
          for_suffix |-> <<"-","T","I","M","E","S">>,
          wall |-> <<"W","A","L","L">>,
          flag |-> <<"F","L","A","G">>,
          home |-> <<"H","O","M","E">>,
          north |-> <<"N","O","R","T","H">>,
          south |-> <<"S","O","U","T","H">>,
          east |-> <<"E","A","S","T">>,
          west |-> <<"W","E","S","T">>]
    ELSE [end |-> <<"K","O","N","E","C">>,
          if_ |-> <<"K","D","Y","U+017D">>,
          is |-> <<"J","E">>,
          not |-> <<"N","E","N","U+00CD">>,
          else_ |-> <<"K","O","N","E","C",","," ","J","I","N","A","K">>,
          while |-> <<"D","O","K","U","D">>,
          for |-> <<"O","P","A","K","U","J">>,
          for_suffix |-> <<"-","K","R","U+00C1","T">>,
          wall |-> <<"Z","E","U+010E">>,
          flag |-> <<"Z","N","A","U+010C","K","A">>,
          home |-> <<"D","O","M","O","V">>,
          north |-> <<"S","E","V","E","R">>,
          south |-> <<"J","I","H">>,
          east |-> <<"V","U+00DD","C","H","O","D">>,
          west |-> <<"Z","U+00C1","P","A","D">>]


(***************************************************************************)
(* A CompileError is modelled by its message: a result record's err field  *)
(* is "" when the call returned and the message's name when it raised.     *)
(***************************************************************************)

\* parse_template_args, the loop that finds the closing ')' from the 0-based
\* position start after the '(': found tells a break from the loop (at the
\* closing parenthesis, 0-based position j) from running off the end; args
\* are the texts between the '(' , the ',' at depth 1 and the closing ')'.
\* The loop's clousure_depth before position j is 1 plus the '(' minus the
\* ')' between start and j.
ParenDepth(call_exp, start, j) ==
    1 + Cardinality({k \in start..(j - 1) : call_exp[k + 1] = "("})
      - Cardinality({k \in start..(j - 1) : call_exp[k + 1] = ")"})

\* The texts between start, the commas (a set of positions) and close
SplitAt(call_exp, start, commas, close) ==
    [k \in 1..(Cardinality(commas) + 1) |->
        SubSeq(call_exp,
               (IF k = 1 THEN start ELSE Nth(commas, k - 1) + 1) + 1,
               IF k = Cardinality(commas) + 1 THEN close ELSE Nth(commas, k))]

TemplateArgsUpTo(call_exp, start, close) ==
    [found |-> TRUE, j |-> close,
     args |-> SplitAt(call_exp, start,
                      {j \in start..(close - 1) :
                          call_exp[j + 1] = "," /\ ParenDepth(call_exp, start, j) = 1},
                      close)]

TemplateArgsIn(call_exp, start, closes) ==
    IF closes = {} THEN [found |-> FALSE, j |-> Len(call_exp), args |-> <<>>]
    ELSE TemplateArgsUpTo(call_exp, start, Min(closes))

TemplateArgsLoop(call_exp, start) ==
    TemplateArgsIn(call_exp, start,
                   {j \in start..(Len(call_exp) - 1) :
                       call_exp[j + 1] = ")" /\ ParenDepth(call_exp, start, j) = 1})

\* parse_template_args after the loop r: the arguments are stripped; one
\* empty argument stands for none, an empty one among several is an error
TemplateArgsClean(r, stripped) ==
    IF ~r.found
    THEN [err |-> "template args expression never closed", args |-> <<>>, size |-> 0]
    ELSE IF Len(stripped) = 1 /\ stripped[1] = <<>>
    THEN [err |-> "", args |-> <<>>, size |-> r.j]
    ELSE IF \E k \in 1..Len(stripped) : stripped[k] = <<>>
    THEN [err |-> "missing template argument", args |-> <<>>, size |-> 0]
    ELSE [err |-> "", args |-> stripped, size |-> r.j]

TemplateArgsOf(r) == TemplateArgsClean(r, [k \in 1..Len(r.args) |-> Strip(r.args[k])])

\* parse_template_args, given the 0-based positions of the first '(' and ')'
TemplateArgsFrom(call_exp, open, close) ==
    IF close >= 0 /\ (open < 0 \/ close < open)
    THEN [err |-> "unexpected ')' before '(' in a call expression",
          args |-> <<>>, size |-> 0]
    ELSE IF open < 0 THEN [err |-> "", args |-> <<>>, size |-> 0]
    ELSE TemplateArgsOf(TemplateArgsLoop(call_exp, open + 1))

\* parse_template_args(call_exp): [err, args, size]
parse_template_args(call_exp) ==
    TemplateArgsFrom(call_exp, Find(call_exp, <<"(">>, 0), Find(call_exp, <<")">>, 0))

\* parse_contition(cond_exp) under the dialect's codegen keywords cg:
\* [err, text, size]
parse_contition(cg, cond_exp) ==
    LET isPre == StartsWith(cond_exp, <<"i","s","_">>)
        notPre == StartsWith(cond_exp, <<"n","o","t","_">>)
        size_read == IF isPre THEN 3 ELSE 4
        rest == Drop(cond_exp, size_read)
        invert_prefix == (IF isPre THEN cg.is ELSE cg.not) \o <<" ">>
        ok(word, n) == [err |-> "", text |-> invert_prefix \o word, size |-> n + size_read]
    IN  IF ~isPre /\ ~notPre
        THEN [err |-> "condition must start with 'is_' or 'not_'", text |-> <<>>, size |-> 0]
        ELSE IF StartsWith(rest, <<"w","a","l","l"," ">>) THEN ok(cg.wall, 5)
        ELSE IF StartsWith(rest, <<"f","l","a","g"," ">>) THEN ok(cg.flag, 5)
        ELSE IF StartsWith(rest, <<"h","o","m","e"," ">>) THEN ok(cg.home, 5)
        ELSE IF StartsWith(rest, <<"n","o","r","t","h"," ">>) THEN ok(cg.north, 6)
        ELSE IF StartsWith(rest, <<"s","o","u","t","h"," ">>) THEN ok(cg.south, 6)
        ELSE IF StartsWith(rest, <<"e","a","s","t"," ">>) THEN ok(cg.east, 5)
        ELSE IF StartsWith(rest, <<"w","e","s","t"," ">>) THEN ok(cg.west, 5)
        ELSE [err |-> "unknown condition", text |-> <<>>, size |-> 0]

(***************************************************************************)
(* parse_fn                                                                *)
(***************************************************************************)

\* x in d.values()
InValues(vals, x) == \E k \in 1..Len(vals) : vals[k] = x

CgValues(cg) ==
    <<cg.end, cg.if_, cg.is, cg.not, cg.else_, cg.while, cg.for, cg.for_suffix,
      cg.wall, cg.flag, cg.home, cg.north, cg.south, cg.east, cg.west>>

\* The text of line l as the compile stage sees it: comment and blanks stripped
CleanLine(l) == Strip(SplitHead(l, <<"/","/">>))

\* parse_fn's search for the end of the fn, from the 0-based line li of
\* src on: the loop runs over the characters of the lines as they are in the
\* file, counts the braces and stops at the first '}' that brings the
\* depth to 0 or below.  A position is <<line, column>>, both 0-based.
Braces(src, li) ==
    UNION {{<<l, j>> : j \in {j \in 0..(Len(src[l + 1]) - 1) :
                                  src[l + 1][j + 1] \in {"{", "}"}}} :
           l \in li..(Len(src) - 1)}

CharAt(src, p) == src[p[1] + 1][p[2] + 1]

Before(q, p) == q[1] < p[1] \/ (q[1] = p[1] /\ q[2] < p[2])

\* clousure_depth before the character at p
BraceDepth(src, braces, p) ==
    Cardinality({q \in braces : Before(q, p) /\ CharAt(src, q) = "{"})
    - Cardinality({q \in braces : Before(q, p) /\ CharAt(src, q) = "}"})

\* The end of the search at the '}' at stop, before which the depth is depth
FnEndAt(src, isLambda, stop, depth) ==
    IF depth - 1 < 0
    THEN [err |-> "unexpected '}' before any '{'", line |-> stop[1], end_line |-> -1]
    ELSE IF stop[2] + 1 # Len(CleanLine(src[stop[1] + 1])) /\ ~isLambda
    THEN [err |-> "expected a new line after fn final '}'",
          line |-> stop[1], end_line |-> -1]
    ELSE [err |-> "", line |-> stop[1], end_line |-> stop[1]]

First(stops) == CHOOSE p \in stops : \A q \in stops : ~Before(q, p)

FnEndIn(src, isLambda, braces, stops) ==
    IF stops = {}
    THEN [err |-> "fn never closed", line |-> Len(src) - 1, end_line |-> -1]
    ELSE FnEndAt(src, isLambda, First(stops), BraceDepth(src, braces, First(stops)))

FnEndOf(src, isLambda, braces) ==
    FnEndIn(src, isLambda, braces,
            {p \in braces : CharAt(src, p) = "}" /\ BraceDepth(src, braces, p) - 1 <= 0})

\* [err, line, end_line]
FindFnEnd(src, li, isLambda) == FnEndOf(src, isLambda, Braces(src, li))

\* The header part of parse_fn for a top-level fn: [name, is_slice]
FnHeaderOf(n0, is_slice) ==
    [name |-> Strip(SplitHead(IF is_slice THEN Strip(DropLast(n0, 8)) ELSE n0, <<"(">>)),
     is_slice |-> is_slice]

FnHeaderIn(n0) == FnHeaderOf(n0, EndsWith(n0, <<" ","s","l","i","c","i","n","g">>))

FnHeader(line) == FnHeaderIn(Strip(RStripBrace(Drop(CleanLine(line), 3))))

\* The reserved-name test of parse_fn
IsReserved(dialect, fn_name) ==
    \/ fn_name \in builtit_reserved_of(dialect)
    \/ InValues(builtin_fns_of(dialect), ToUpper(fn_name))
    \/ InValues(CgValues(builtin_cg_keywords_of(dialect)), ToUpper(fn_name))

\* The FnPrototypeAst parse_fn creates
FnPrototypeAst(fn_name, src, src_file, define_line_index, owner, tem, is_slice, fin) ==
    [name |-> fn_name,
     line_of_definition |-> define_line_index,
     ending_line_of_definition |-> fin.end_line,
     template_args |-> tem.args,
     top_level_implicit_usage |-> (tem.args = <<>> /\ ~is_slice /\ owner = <<>>),
     is_slice_valid |-> is_slice,
     fn_src |-> Join([k \in 1..(fin.end_line - define_line_index + 1) |->
                        CleanLine(src[define_line_index + k]) \o <<NL>>]),
     src_file |-> src_file]

\* parse_fn once the template arguments tem, the name, the slice mark and
\* the end of the fn fin are known
ParseFnOf(protos, dialect, src, src_file, define_line_index, owner, tem, fn_name, is_slice, fin) ==
    IF tem.err # "" THEN [err |-> tem.err, line |-> define_line_index, proto |-> <<>>]
    ELSE IF owner = <<>> /\ HasChar(fn_name, " ")
    THEN [err |-> "fn name cannot contain spaces", line |-> define_line_index,
          proto |-> <<>>]
    ELSE IF owner = <<>> /\ IsReserved(dialect, fn_name)
    THEN [err |-> "is a reserved keyword by karel-lang", line |-> define_line_index,
          proto |-> <<>>]
    ELSE IF fin.err # "" THEN [err |-> fin.err, line |-> fin.line, proto |-> <<>>]
    ELSE IF fn_name \in DOMAIN protos
    THEN [err |-> "redefinition of fn", line |-> define_line_index, proto |-> <<>>]
    ELSE [err |-> "", line |-> define_line_index,
          proto |-> <<FnPrototypeAst(fn_name, src, src_file, define_line_index, owner,
                                     tem, is_slice, fin)>>]

ParseFnHeader(protos, dialect, src, src_file, define_line_index, owner, hdr) ==
    ParseFnOf(protos, dialect, src, src_file, define_line_index, owner,
              parse_template_args(src[define_line_index + 1]),
              IF owner = <<>> THEN hdr.name
              ELSE owner[1].name \o <<"_","l","a","m","b","d","a","_","n">> \o StrInt(Len(owner[1].owning_lambdas)),
              IF owner = <<>> THEN hdr.is_slice ELSE owner[1].commit_fn # <<>>,
              FindFnEnd(src, define_line_index, owner # <<>>))

\* parse_fn(src, src_file, define_line_index, lambda_owner): protos is
\* defined_fn_prototypes; owner is <<>> for None and else <<the owning
\* instance>>.  [err, line, proto]; the caller registers proto under its name.
parse_fn(protos, dialect, src, src_file, define_line_index, owner) ==
    ParseFnHeader(protos, dialect, src, src_file, define_line_index, owner,
                  FnHeader(src[define_line_index + 1]))

(***************************************************************************)
(* gen_comp_name.  Python's hash() of a str is keyed by a per-process      *)
(* random seed (PYTHONHASHSEED); the hash of a tuple is a fixed function   *)
(* of its elements' hashes.  The model keeps this shape with a small       *)
(* polynomial hash: the seed is the only thing that differs between two    *)
(* runs, and the result is a signed integer.                               *)
(***************************************************************************)

\* The hash values are the integers in -HashMod/2 .. HashMod/2 - 1
HashMod == 65536

HashMul == 31

\* h, then the characters of str folded in from left to right
RECURSIVE HashFold(_, _)
HashFold(h, str) ==
    IF str = <<>> THEN h
    ELSE IF Len(str) = 1 THEN (h * HashMul + Ord(str[1])) % HashMod
    ELSE HashFold(HashFold(h, SubSeq(str, 1, Len(str) \div 2)),
                  SubSeq(str, Len(str) \div 2 + 1, Len(str)))

Signed(h) == IF h >= HashMod \div 2 THEN h - HashMod ELSE h

\* hash(s) for a str s, in the process whose hash seed is seed; the hash of
\* the empty str is 0 whatever the seed
hash_str(seed, str) == IF str = <<>> THEN 0 ELSE Signed(HashFold(seed % HashMod, str))

RECURSIVE TupleFold(_, _, _)
TupleFold(seed, h, tup) ==
    IF tup = <<>> THEN h
    ELSE TupleFold(seed,
                   (h * HashMul + (hash_str(seed, Head(tup)) + HashMod)) % HashMod,
                   Tail(tup))

\* hash(t) for a tuple t of str
hash_tuple(seed, tup) == Signed(TupleFold(seed, Len(tup) + 1, tup))

\* The code points str.isprintable() is false of, two numbers a run: the
\* first and the last code point of the run
NonPrintable == <<
    0, 31, 127, 160, 173, 173, 888, 889, 896, 899, 907, 907,
    909, 909, 930, 930, 1328, 1328, 1367, 1368, 1419, 1420, 1424, 1424,
    1480, 1487, 1515, 1518, 1525, 1541, 1564, 1564, 1757, 1757, 1806, 1807,
    1867, 1868, 1970, 1983, 2043, 2044, 2094, 2095, 2111, 2111, 2140, 2141,
    2143, 2143, 2155, 2159, 2191, 2199, 2274, 2274, 2436, 2436, 2445, 2446,
    2449, 2450, 2473, 2473, 2481, 2481, 2483, 2485, 2490, 2491, 2501, 2502,
    2505, 2506, 2511, 2518, 2520, 2523, 2526, 2526, 2532, 2533, 2559, 2560,
    2564, 2564, 2571, 2574, 2577, 2578, 2601, 2601, 2609, 2609, 2612, 2612,
    2615, 2615, 2618, 2619, 2621, 2621, 2627, 2630, 2633, 2634, 2638, 2640,
    2642, 2648, 2653, 2653, 2655, 2661, 2679, 2688, 2692, 2692, 2702, 2702,
    2706, 2706, 2729, 2729, 2737, 2737, 2740, 2740, 2746, 2747, 2758, 2758,
    2762, 2762, 2766, 2767, 2769, 2783, 2788, 2789, 2802, 2808, 2816, 2816,
    2820, 2820, 2829, 2830, 2833, 2834, 2857, 2857, 2865, 2865, 2868, 2868,
    2874, 2875, 2885, 2886, 2889, 2890, 2894, 2900, 2904, 2907, 2910, 2910,
    2916, 2917, 2936, 2945, 2948, 2948, 2955, 2957, 2961, 2961, 2966, 2968,
    2971, 2971, 2973, 2973, 2976, 2978, 2981, 2983, 2987, 2989, 3002, 3005,
    3011, 3013, 3017, 3017, 3022, 3023, 3025, 3030, 3032, 3045, 3067, 3071,
    3085, 3085, 3089, 3089, 3113, 3113, 3130, 3131, 3141, 3141, 3145, 3145,
    3150, 3156, 3159, 3159, 3163, 3164, 3166, 3167, 3172, 3173, 3184, 3190,
    3213, 3213, 3217, 3217, 3241, 3241, 3252, 3252, 3258, 3259, 3269, 3269,
    3273, 3273, 3278, 3284, 3287, 3292, 3295, 3295, 3300, 3301, 3312, 3312,
    3315, 3327, 3341, 3341, 3345, 3345, 3397, 3397, 3401, 3401, 3408, 3411,
    3428, 3429, 3456, 3456, 3460, 3460, 3479, 3481, 3506, 3506, 3516, 3516,
    3518, 3519, 3527, 3529, 3531, 3534, 3541, 3541, 3543, 3543, 3552, 3557,
    3568, 3569, 3573, 3584, 3643, 3646, 3676, 3712, 3715, 3715, 3717, 3717,
    3723, 3723, 3748, 3748, 3750, 3750, 3774, 3775, 3781, 3781, 3783, 3783,
    3790, 3791, 3802, 3803, 3808, 3839, 3912, 3912, 3949, 3952, 3992, 3992,
    4029, 4029, 4045, 4045, 4059, 4095, 4294, 4294, 4296, 4300, 4302, 4303,
    4681, 4681, 4686, 4687, 4695, 4695, 4697, 4697, 4702, 4703, 4745, 4745,
    4750, 4751, 4785, 4785, 4790, 4791, 4799, 4799, 4801, 4801, 4806, 4807,
    4823, 4823, 4881, 4881, 4886, 4887, 4955, 4956, 4989, 4991, 5018, 5023,
    5110, 5111, 5118, 5119, 5760, 5760, 5789, 5791, 5881, 5887, 5910, 5918,
    5943, 5951, 5972, 5983, 5997, 5997, 6001, 6001, 6004, 6015, 6110, 6111,
    6122, 6127, 6138, 6143, 6158, 6158, 6170, 6175, 6265, 6271, 6315, 6319,
    6390, 6399, 6431, 6431, 6444, 6447, 6460, 6463, 6465, 6467, 6510, 6511,
    6517, 6527, 6572, 6575, 6602, 6607, 6619, 6621, 6684, 6685, 6751, 6751,
    6781, 6782, 6794, 6799, 6810, 6815, 6830, 6831, 6863, 6911, 6989, 6991,
    7039, 7039, 7156, 7163, 7224, 7226, 7242, 7244, 7305, 7311, 7355, 7356,
    7368, 7375, 7419, 7423, 7958, 7959, 7966, 7967, 8006, 8007, 8014, 8015,
    8024, 8024, 8026, 8026, 8028, 8028, 8030, 8030, 8062, 8063, 8117, 8117,
    8133, 8133, 8148, 8149, 8156, 8156, 8176, 8177, 8181, 8181, 8191, 8207,
    8232, 8239, 8287, 8303, 8306, 8307, 8335, 8335, 8349, 8351, 8385, 8399,
    8433, 8447, 8588, 8591, 9255, 9279, 9291, 9311, 11124, 11125, 11158, 11158,
    11508, 11512, 11558, 11558, 11560, 11564, 11566, 11567, 11624, 11630, 11633, 11646,
    11671, 11679, 11687, 11687, 11695, 11695, 11703, 11703, 11711, 11711, 11719, 11719,
    11727, 11727, 11735, 11735, 11743, 11743, 11870, 11903, 11930, 11930, 12020, 12031,
    12246, 12271, 12284, 12288, 12352, 12352, 12439, 12440, 12544, 12548, 12592, 12592,
    12687, 12687, 12772, 12783, 12831, 12831, 42125, 42127, 42183, 42191, 42540, 42559,
    42744, 42751, 42955, 42959, 42962, 42962, 42964, 42964, 42970, 42993, 43053, 43055,
    43066, 43071, 43128, 43135, 43206, 43213, 43226, 43231, 43348, 43358, 43389, 43391,
    43470, 43470, 43482, 43485, 43519, 43519, 43575, 43583, 43598, 43599, 43610, 43611,
    43715, 43738, 43767, 43776, 43783, 43784, 43791, 43792, 43799, 43807, 43815, 43815,
    43823, 43823, 43884, 43887, 44014, 44015, 44026, 44031, 55204, 55215, 55239, 55242,
    55292, 63743, 64110, 64111, 64218, 64255, 64263, 64274, 64280, 64284, 64311, 64311,
    64317, 64317, 64319, 64319, 64322, 64322, 64325, 64325, 64451, 64466, 64912, 64913,
    64968, 64974, 64976, 65007, 65050, 65055, 65107, 65107, 65127, 65127, 65132, 65135,
    65141, 65141, 65277, 65280, 65471, 65473, 65480, 65481, 65488, 65489, 65496, 65497,
    65501, 65503, 65511, 65511, 65519, 65531, 65534, 65535, 65548, 65548, 65575, 65575,
    65595, 65595, 65598, 65598, 65614, 65615, 65630, 65663, 65787, 65791, 65795, 65798,
    65844, 65846, 65935, 65935, 65949, 65951, 65953, 65999, 66046, 66175, 66205, 66207,
    66257, 66271, 66300, 66303, 66340, 66348, 66379, 66383, 66427, 66431, 66462, 66462,
    66500, 66503, 66518, 66559, 66718, 66719, 66730, 66735, 66772, 66775, 66812, 66815,
    66856, 66863, 66916, 66926, 66939, 66939, 66955, 66955, 66963, 66963, 66966, 66966,
    66978, 66978, 66994, 66994, 67002, 67002, 67005, 67071, 67383, 67391, 67414, 67423,
    67432, 67455, 67462, 67462, 67505, 67505, 67515, 67583, 67590, 67591, 67593, 67593,
    67638, 67638, 67641, 67643, 67645, 67646, 67670, 67670, 67743, 67750, 67760, 67807,
    67827, 67827, 67830, 67834, 67868, 67870, 67898, 67902, 67904, 67967, 68024, 68027,
    68048, 68049, 68100, 68100, 68103, 68107, 68116, 68116, 68120, 68120, 68150, 68151,
    68155, 68158, 68169, 68175, 68185, 68191, 68256, 68287, 68327, 68330, 68343, 68351,
    68406, 68408, 68438, 68439, 68467, 68471, 68498, 68504, 68509, 68520, 68528, 68607,
    68681, 68735, 68787, 68799, 68851, 68857, 68904, 68911, 68922, 69215, 69247, 69247,
    69290, 69290, 69294, 69295, 69298, 69375, 69416, 69423, 69466, 69487, 69514, 69551,
    69580, 69599, 69623, 69631, 69710, 69713, 69750, 69758, 69821, 69821, 69827, 69839,
    69865, 69871, 69882, 69887, 69941, 69941, 69960, 69967, 70007, 70015, 70112, 70112,
    70133, 70143, 70162, 70162, 70207, 70271, 70279, 70279, 70281, 70281, 70286, 70286,
    70302, 70302, 70314, 70319, 70379, 70383, 70394, 70399, 70404, 70404, 70413, 70414,
    70417, 70418, 70441, 70441, 70449, 70449, 70452, 70452, 70458, 70458, 70469, 70470,
    70473, 70474, 70478, 70479, 70481, 70486, 70488, 70492, 70500, 70501, 70509, 70511,
    70517, 70655, 70748, 70748, 70754, 70783, 70856, 70863, 70874, 71039, 71094, 71095,
    71134, 71167, 71237, 71247, 71258, 71263, 71277, 71295, 71354, 71359, 71370, 71423,
    71451, 71452, 71468, 71471, 71495, 71679, 71740, 71839, 71923, 71934, 71943, 71944,
    71946, 71947, 71956, 71956, 71959, 71959, 71990, 71990, 71993, 71994, 72007, 72015,
    72026, 72095, 72104, 72105, 72152, 72153, 72165, 72191, 72264, 72271, 72355, 72367,
    72441, 72703, 72713, 72713, 72759, 72759, 72774, 72783, 72813, 72815, 72848, 72849,
    72872, 72872, 72887, 72959, 72967, 72967, 72970, 72970, 73015, 73017, 73019, 73019,
    73022, 73022, 73032, 73039, 73050, 73055, 73062, 73062, 73065, 73065, 73103, 73103,
    73106, 73106, 73113, 73119, 73130, 73439, 73465, 73647, 73649, 73663, 73714, 73726,
    74650, 74751, 74863, 74863, 74869, 74879, 75076, 77711, 77811, 77823, 78895, 82943,
    83527, 92159, 92729, 92735, 92767, 92767, 92778, 92781, 92863, 92863, 92874, 92879,
    92910, 92911, 92918, 92927, 92998, 93007, 93018, 93018, 93026, 93026, 93048, 93052,
    93072, 93759, 93851, 93951, 94027, 94030, 94088, 94094, 94112, 94175, 94181, 94191,
    94194, 94207, 100344, 100351, 101590, 101631, 101641, 110575, 110580, 110580, 110588, 110588,
    110591, 110591, 110883, 110927, 110931, 110947, 110952, 110959, 111356, 113663, 113771, 113775,
    113789, 113791, 113801, 113807, 113818, 113819, 113824, 118527, 118574, 118575, 118599, 118607,
    118724, 118783, 119030, 119039, 119079, 119080, 119155, 119162, 119275, 119295, 119366, 119519,
    119540, 119551, 119639, 119647, 119673, 119807, 119893, 119893, 119965, 119965, 119968, 119969,
    119971, 119972, 119975, 119976, 119981, 119981, 119994, 119994, 119996, 119996, 120004, 120004,
    120070, 120070, 120075, 120076, 120085, 120085, 120093, 120093, 120122, 120122, 120127, 120127,
    120133, 120133, 120135, 120137, 120145, 120145, 120486, 120487, 120780, 120781, 121484, 121498,
    121504, 121504, 121520, 122623, 122655, 122879, 122887, 122887, 122905, 122906, 122914, 122914,
    122917, 122917, 122923, 123135, 123181, 123183, 123198, 123199, 123210, 123213, 123216, 123535,
    123567, 123583, 123642, 123646, 123648, 124895, 124903, 124903, 124908, 124908, 124911, 124911,
    124927, 124927, 125125, 125126, 125143, 125183, 125260, 125263, 125274, 125277, 125280, 126064,
    126133, 126208, 126270, 126463, 126468, 126468, 126496, 126496, 126499, 126499, 126501, 126502,
    126504, 126504, 126515, 126515, 126520, 126520, 126522, 126522, 126524, 126529, 126531, 126534,
    126536, 126536, 126538, 126538, 126540, 126540, 126544, 126544, 126547, 126547, 126549, 126550,
    126552, 126552, 126554, 126554, 126556, 126556, 126558, 126558, 126560, 126560, 126563, 126563,
    126565, 126566, 126571, 126571, 126579, 126579, 126584, 126584, 126589, 126589, 126591, 126591,
    126602, 126602, 126620, 126624, 126628, 126628, 126634, 126634, 126652, 126703, 126706, 126975,
    127020, 127023, 127124, 127135, 127151, 127152, 127168, 127168, 127184, 127184, 127222, 127231,
    127406, 127461, 127491, 127503, 127548, 127551, 127561, 127567, 127570, 127583, 127590, 127743,
    128728, 128732, 128749, 128751, 128765, 128767, 128884, 128895, 128985, 128991, 129004, 129007,
    129009, 129023, 129036, 129039, 129096, 129103, 129114, 129119, 129160, 129167, 129198, 129199,
    129202, 129279, 129620, 129631, 129646, 129647, 129653, 129655, 129661, 129663, 129671, 129679,
    129709, 129711, 129723, 129727, 129734, 129743, 129754, 129759, 129768, 129775, 129783, 129791,
    129939, 129939, 129995, 130031, 130042, 131071, 173792, 173823, 177977, 177983, 178206, 178207,
    183970, 183983, 191457, 194559, 195102, 196607, 201547, 917759, 918000, 1114111 >>

\* repr(s) for a str: in double quotes when it holds a ' and no ", in single
\* quotes otherwise, with a backslash before a backslash and before the
\* quote it is written in; \n, \t and \r for these characters, and \x, \u or
\* \U and the code point in hexadecimal for another character that is not
\* printable
ReprStr(str) ==
    LET Hex(c, kind, from) ==
            <<"\\", kind>> \o Times(<<"0">>, IF kind = "U" THEN 10 - Len(c) ELSE 0)
            \o [k \in 1..(Len(c) + 1 - from) |->
                    IF \E j \in 1..6 : Upper[j] = SubSeq(c, from + k - 1, from + k - 1)
                    THEN Lower[CHOOSE j \in 1..6 : Upper[j] = SubSeq(c, from + k - 1, from + k - 1)]
                    ELSE SubSeq(c, from + k - 1, from + k - 1)]
        Escaped(c, quote) ==
            IF c = "\\" \/ c = quote THEN <<"\\", c>>
            ELSE IF c = NL THEN <<"\\", "n">>
            ELSE IF c = "\t" THEN <<"\\", "t">>
            ELSE IF c = "\r" THEN <<"\\", "r">>
            ELSE IF c = "\f" THEN <<"\\", "x", "0", "c">>
            ELSE IF Len(c) = 1 THEN <<c>>
            ELSE IF \A k \in 1..Len(NonPrintable) :
                        k % 2 = 0 \/ Ord(c) \notin NonPrintable[k]..NonPrintable[k + 1]
            THEN <<c>>
            ELSE Hex(c, IF Len(c) > 6 THEN "U" ELSE IF SubSeq(c, 3, 4) = "00" THEN "x" ELSE "u",
                     IF Len(c) = 6 /\ SubSeq(c, 3, 4) = "00" THEN 5 ELSE 3)
        Quoted(quote) ==
            IF \A k \in 1..Len(str) : Len(str[k]) = 1 /\ str[k] \notin {"\\", quote, NL, "\t", "\r", "\f"}
            THEN <<quote>> \o str \o <<quote>>
            ELSE <<quote>> \o Join([k \in 1..Len(str) |-> Escaped(str[k], quote)]) \o <<quote>>
    IN  Quoted(IF HasChar(str, "'") /\ ~HasChar(str, "\"") THEN "\"" ELSE "'")

\* ', '.join(repr(v) for v in t)
RECURSIVE ReprItems(_)
ReprItems(tup) ==
    IF tup = <<>> THEN <<>>
    ELSE ReprStr(Head(tup)) \o (IF Len(tup) = 1 THEN <<>> ELSE <<",", " ">>) \o ReprItems(Tail(tup))

\* str(t) for a tuple t of str
ReprTuple(tup) == <<"(">> \o ReprItems(tup) \o (IF Len(tup) = 1 THEN <<",", ")">> ELSE <<")">>)


\* gen_comp_name(fn_proto, call_loc, seg_index), for the flag -g and the
\* process's hash seed.  call_loc.callee_commit_dest_fn is <<>> for None.
gen_comp_name(g, seed, fn_name, call_loc, seg_index) ==
    LET seg == IF seg_index = 0 THEN <<>> ELSE <<"_","s","e","g">> \o StrInt(seg_index)
        dest == call_loc.callee_commit_dest_fn
        tv == call_loc.template_arg_values
        iv == call_loc.inherited_template_arg_values
    IN  IF ~g
        THEN fn_name \o seg \o <<"<","c","h">>
             \o (IF dest # <<>> THEN StrInt(hash_str(seed, dest[1].comp_name)) ELSE <<"-","n","o","n","e">>)
             \o <<"-","t","h">>
             \o (IF Len(tv) + Len(iv) # 0 THEN StrInt(hash_tuple(seed, tv \o iv)) ELSE <<"-","n","o","n","e">>)
             \o <<">">>
        ELSE fn_name \o seg
             \o Replace(<<"<","c","o","m","m","i","t","-","l","o","c","=">>
                        \o (IF dest # <<>> THEN dest[1].comp_name ELSE <<"n","o","n","e">>)
                        \o <<"|","t","e","m","p","l","a","t","e","-","a","r","g","s","=">> \o ReprTuple(tv)
                        \o (IF Len(iv) > 0 THEN <<"+","i","n","h","e","r","i","t","e","d","=">> \o ReprTuple(iv) ELSE <<>>)
                        \o <<">">>,
                        <<" ">>, <<>>)

(***************************************************************************)
(* The file system and the command line.  A path is a str, as in Python.   *)
(* The process runs in the directory Cwd; the model's file systems hold    *)
(* directories and regular files and no symbolic links, so that            *)
(* os.path.realpath is the normalised absolute path.                       *)
(***************************************************************************)

\* os.getcwd()
Cwd == <<"/", "c", "w", "d">>

\* path.split('/')
SplitSlash(path) ==
    LET Cut(cuts) ==
            [j \in 1..(Cardinality(cuts) + 1) |->
                SubSeq(path,
                       IF j = 1 THEN 1 ELSE Nth(cuts, j - 1) + 1,
                       IF j > Cardinality(cuts) THEN Len(path) ELSE Nth(cuts, j) - 1)]
    IN  Cut({k \in 1..Len(path) : path[k] = "/"})

\* The loop of os.path.normpath over the components comps, new_comps being
\* new: '' and '.' are dropped, '..' removes the component before it, and
\* stays when there is none in a relative path (rooted is FALSE)
RECURSIVE Resolve(_, _, _)
Resolve(comps, new, rooted) ==
    IF comps = <<>> THEN new
    ELSE IF comps[1] \in {<<>>, <<".">>} THEN Resolve(Tail(comps), new, rooted)
    ELSE IF \/ comps[1] # <<".", ".">>
            \/ (~rooted /\ new = <<>>)
            \/ (new # <<>> /\ new[Len(new)] = <<".", ".">>)
    THEN Resolve(Tail(comps), Append(new, comps[1]), rooted)
    ELSE IF new # <<>> THEN Resolve(Tail(comps), DropLast(new, 1), rooted)
    ELSE Resolve(Tail(comps), new, rooted)

\* os.path.normpath(path)
normpath(path) ==
    LET Joined(slashes, comps) ==
            IF slashes = 0 /\ comps = <<>> THEN <<".">>
            ELSE Times(<<"/">>, slashes)
                 \o Join([k \in 1..Len(comps) |-> IF k = 1 THEN comps[k] ELSE <<"/">> \o comps[k]])
        Rooted(slashes) == Joined(slashes, Resolve(SplitSlash(path), <<>>, slashes > 0))
    IN  Rooted(IF StartsWith(path, <<"/", "/">>) /\ ~StartsWith(path, <<"/", "/", "/">>) THEN 2
               ELSE IF StartsWith(path, <<"/">>) THEN 1
               ELSE 0)

\* os.path.realpath(path): an absolute path keeps one leading slash, a
\* relative one is taken from Cwd (a bare file name needs no normalising)
realpath(path) ==
    IF path # <<>> /\ path # <<".">> /\ path # <<".", ".">> /\ ~HasChar(path, "/")
    THEN Cwd \o <<"/">> \o path
    ELSE normpath(IF StartsWith(path, <<"/">>) THEN <<"/", "/">> \o path
                  ELSE Cwd \o <<"/">> \o path)

(***************************************************************************)
(* The inputs: each is a command line's positional source files, its -I    *)
(* directories and the files on disk (realpath -> the lines of the file,   *)
(* f.read().split('\n')).                                                  *)
(***************************************************************************)

\* plain, main.nk: a single top-level fn
\*     // the entry point
\*     fn main {
\*         step;
\*         ++;
\*         no_op;
\*     }
\*
Src_plain_main_nk == <<
    <<"/","/"," ","t","h","e"," ","e","n","t","r","y"," ","p","o","i","n","t">>,
    <<"f","n"," ","m","a","i","n"," ","{">>,
    <<" "," "," "," ","s","t","e","p",";">>,
    <<" "," "," "," ","+","+",";">>,
    <<" "," "," "," ","n","o","_","o","p",";">>,
    <<"}">>,
    <<>> >>

\* template, main.nk: a template fn instantiated for two keys, one of them twice
\*     fn turn(x, y) {
\*         [x];
\*         [y];
\*     }
\*     fn main {
\*         turn(left, step);
\*         turn(step, left);
\*         turn(left, step);
\*     }
\*
Src_template_main_nk == <<
    <<"f","n"," ","t","u","r","n","(","x",","," ","y",")"," ","{">>,
    <<" "," "," "," ","[","x","]",";">>,
    <<" "," "," "," ","[","y","]",";">>,
    <<"}">>,
    <<"f","n"," ","m","a","i","n"," ","{">>,
    <<" "," "," "," ","t","u","r","n","(","l","e","f","t",","," ","s","t","e","p",")",";">>,
    <<" "," "," "," ","t","u","r","n","(","s","t","e","p",","," ","l","e","f","t",")",";">>,
    <<" "," "," "," ","t","u","r","n","(","l","e","f","t",","," ","s","t","e","p",")",";">>,
    <<"}">>,
    <<>> >>

\* arity, main.nk: a call with a template argument to a fn that declares none
\*     fn helper {
\*         step;
\*     }
\*     fn main {
\*         helper(left);
\*     }
\*
Src_arity_main_nk == <<
    <<"f","n"," ","h","e","l","p","e","r"," ","{">>,
    <<" "," "," "," ","s","t","e","p",";">>,
    <<"}">>,
    <<"f","n"," ","m","a","i","n"," ","{">>,
    <<" "," "," "," ","h","e","l","p","e","r","(","l","e","f","t",")",";">>,
    <<"}">>,
    <<>> >>

\* spaces, main.nk: two template values that differ only by a space
\*     fn run(c) {
\*         [c];
\*     }
\*     fn main {
\*         run(step);
\*         run(st ep);
\*     }
\*
Src_spaces_main_nk == <<
    <<"f","n"," ","r","u","n","(","c",")"," ","{">>,
    <<" "," "," "," ","[","c","]",";">>,
    <<"}">>,
    <<"f","n"," ","m","a","i","n"," ","{">>,
    <<" "," "," "," ","r","u","n","(","s","t","e","p",")",";">>,
    <<" "," "," "," ","r","u","n","(","s","t"," ","e","p",")",";">>,
    <<"}">>,
    <<>> >>

\* recall, main.nk: recall re-enters the key being compiled
\*     fn spin(x) {
\*         while not_wall {
\*             [x];
\*             recall;
\*         }
\*     }
\*     fn main {
\*         spin(step);
\*         recall;
\*     }
\*
Src_recall_main_nk == <<
    <<"f","n"," ","s","p","i","n","(","x",")"," ","{">>,
    <<" "," "," "," ","w","h","i","l","e"," ","n","o","t","_","w","a","l","l"," ","{">>,
    <<" "," "," "," "," "," "," "," ","[","x","]",";">>,
    <<" "," "," "," "," "," "," "," ","r","e","c","a","l","l",";">>,
    <<" "," "," "," ","}">>,
    <<"}">>,
    <<"f","n"," ","m","a","i","n"," ","{">>,
    <<" "," "," "," ","s","p","i","n","(","s","t","e","p",")",";">>,
    <<" "," "," "," ","r","e","c","a","l","l",";">>,
    <<"}">>,
    <<>> >>

\* grow, main.nk: recall with template arguments that grow at every instance
\*     fn grow(x) {
\*         recall(a[x]);
\*     }
\*     fn main {
\*         grow(b);
\*     }
\*
Src_grow_main_nk == <<
    <<"f","n"," ","g","r","o","w","(","x",")"," ","{">>,
    <<" "," "," "," ","r","e","c","a","l","l","(","a","[","x","]",")",";">>,
    <<"}">>,
    <<"f","n"," ","m","a","i","n"," ","{">>,
    <<" "," "," "," ","g","r","o","w","(","b",")",";">>,
    <<"}">>,
    <<>> >>

\* slice, main.nk: one push/pop pair, statements after the pop
\*     fn over_wall slicing {
\*         left;
\*         commit;
\*     }
\*     fn main {
\*         s = push over_wall;
\*         pop s;
\*         step;
\*     }
\*
Src_slice_main_nk == <<
    <<"f","n"," ","o","v","e","r","_","w","a","l","l"," ","s","l","i","c","i","n","g"," ","{">>,
    <<" "," "," "," ","l","e","f","t",";">>,
    <<" "," "," "," ","c","o","m","m","i","t",";">>,
    <<"}">>,
    <<"f","n"," ","m","a","i","n"," ","{">>,
    <<" "," "," "," ","s"," ","="," ","p","u","s","h"," ","o","v","e","r","_","w","a","l","l",";">>,
    <<" "," "," "," ","p","o","p"," ","s",";">>,
    <<" "," "," "," ","s","t","e","p",";">>,
    <<"}">>,
    <<>> >>

\* between, main.nk: one push/pop pair, statements between the push and the pop
\*     fn over_wall slicing {
\*         left;
\*         commit;
\*     }
\*     fn main {
\*         s = push over_wall;
\*         left;
\*         pop s;
\*         step;
\*         pick;
\*     }
\*
Src_between_main_nk == <<
    <<"f","n"," ","o","v","e","r","_","w","a","l","l"," ","s","l","i","c","i","n","g"," ","{">>,
    <<" "," "," "," ","l","e","f","t",";">>,
    <<" "," "," "," ","c","o","m","m","i","t",";">>,
    <<"}">>,
    <<"f","n"," ","m","a","i","n"," ","{">>,
    <<" "," "," "," ","s"," ","="," ","p","u","s","h"," ","o","v","e","r","_","w","a","l","l",";">>,
    <<" "," "," "," ","l","e","f","t",";">>,
    <<" "," "," "," ","p","o","p"," ","s",";">>,
    <<" "," "," "," ","s","t","e","p",";">>,
    <<" "," "," "," ","p","i","c","k",";">>,
    <<"}">>,
    <<>> >>

\* slices, main.nk: nested and sequential push/pop pairs, a slicing fn that pushes, a commit without continuation
\*     fn a slicing {
\*         commit;
\*     }
\*     fn b slicing {
\*         s = push a;
\*         pop s;
\*         commit;
\*     }
\*     fn main {
\*         s = push b;
\*         t = push a;
\*         pick;
\*         pop t;
\*         pop s;
\*         u = push a;
\*         pop u;
\*         b;
\*     }
\*
Src_slices_main_nk == <<
    <<"f","n"," ","a"," ","s","l","i","c","i","n","g"," ","{">>,
    <<" "," "," "," ","c","o","m","m","i","t",";">>,
    <<"}">>,
    <<"f","n"," ","b"," ","s","l","i","c","i","n","g"," ","{">>,
    <<" "," "," "," ","s"," ","="," ","p","u","s","h"," ","a",";">>,
    <<" "," "," "," ","p","o","p"," ","s",";">>,
    <<" "," "," "," ","c","o","m","m","i","t",";">>,
    <<"}">>,
    <<"f","n"," ","m","a","i","n"," ","{">>,
    <<" "," "," "," ","s"," ","="," ","p","u","s","h"," ","b",";">>,
    <<" "," "," "," ","t"," ","="," ","p","u","s","h"," ","a",";">>,
    <<" "," "," "," ","p","i","c","k",";">>,
    <<" "," "," "," ","p","o","p"," ","t",";">>,
    <<" "," "," "," ","p","o","p"," ","s",";">>,
    <<" "," "," "," ","u"," ","="," ","p","u","s","h"," ","a",";">>,
    <<" "," "," "," ","p","o","p"," ","u",";">>,
    <<" "," "," "," ","b",";">>,
    <<"}">>,
    <<>> >>

\* assign, main.nk: a block opened after an assignment
\*     fn main {
\*         a = b {
\*             step;
\*         }
\*         left;
\*     }
\*
Src_assign_main_nk == <<
    <<"f","n"," ","m","a","i","n"," ","{">>,
    <<" "," "," "," ","a"," ","="," ","b"," ","{">>,
    <<" "," "," "," "," "," "," "," ","s","t","e","p",";">>,
    <<" "," "," "," ","}">>,
    <<" "," "," "," ","l","e","f","t",";">>,
    <<"}">>,
    <<>> >>

\* blocks, main.nk: if, else, while and for blocks
\*     fn main {
\*         if is_wall {
\*             left;
\*         } else {
\*             step;
\*         }
\*         while not_flag {
\*             for 2 {
\*                 --;
\*             }
\*         }
\*         if not_home {
\*             stop;
\*         }
\*     }
\*
Src_blocks_main_nk == <<
    <<"f","n"," ","m","a","i","n"," ","{">>,
    <<" "," "," "," ","i","f"," ","i","s","_","w","a","l","l"," ","{">>,
    <<" "," "," "," "," "," "," "," ","l","e","f","t",";">>,
    <<" "," "," "," ","}"," ","e","l","s","e"," ","{">>,
    <<" "," "," "," "," "," "," "," ","s","t","e","p",";">>,
    <<" "," "," "," ","}">>,
    <<" "," "," "," ","w","h","i","l","e"," ","n","o","t","_","f","l","a","g"," ","{">>,
    <<" "," "," "," "," "," "," "," ","f","o","r"," ","2"," ","{">>,
    <<" "," "," "," "," "," "," "," "," "," "," "," ","-","-",";">>,
    <<" "," "," "," "," "," "," "," ","}">>,
    <<" "," "," "," ","}">>,
    <<" "," "," "," ","i","f"," ","n","o","t","_","h","o","m","e"," ","{">>,
    <<" "," "," "," "," "," "," "," ","s","t","o","p",";">>,
    <<" "," "," "," ","}">>,
    <<"}">>,
    <<>> >>

\* fn_end, main.nk: a fn name reserved in one dialect only
\*     fn end {
\*         step;
\*     }
\*
Src_fn_end_main_nk == <<
    <<"f","n"," ","e","n","d"," ","{">>,
    <<" "," "," "," ","s","t","e","p",";">>,
    <<"}">>,
    <<>> >>

\* lambda, main.nk: a lambda that inherits its owner's template argument
\*     fn twice(x) {
\*         (y) {
\*             [x];
\*             [y];
\*         }(left);
\*     }
\*     fn main {
\*         twice(step);
\*     }
\*
Src_lambda_main_nk == <<
    <<"f","n"," ","t","w","i","c","e","(","x",")"," ","{">>,
    <<" "," "," "," ","(","y",")"," ","{">>,
    <<" "," "," "," "," "," "," "," ","[","x","]",";">>,
    <<" "," "," "," "," "," "," "," ","[","y","]",";">>,
    <<" "," "," "," ","}","(","l","e","f","t",")",";">>,
    <<"}">>,
    <<"f","n"," ","m","a","i","n"," ","{">>,
    <<" "," "," "," ","t","w","i","c","e","(","s","t","e","p",")",";">>,
    <<"}">>,
    <<>> >>

\* import, main.nk: imports from the current directory and from an import path
\*     import lib.nk
\*     import util.nk
\*     fn main {
\*         hop;
\*         skip;
\*     }
\*
Src_import_main_nk == <<
    <<"i","m","p","o","r","t"," ","l","i","b",".","n","k">>,
    <<"i","m","p","o","r","t"," ","u","t","i","l",".","n","k">>,
    <<"f","n"," ","m","a","i","n"," ","{">>,
    <<" "," "," "," ","h","o","p",";">>,
    <<" "," "," "," ","s","k","i","p",";">>,
    <<"}">>,
    <<>> >>

\* import, lib.nk: imports from the current directory and from an import path
\*     import util.nk
\*     fn hop {
\*         step;
\*     }
\*
Src_import_lib_nk == <<
    <<"i","m","p","o","r","t"," ","u","t","i","l",".","n","k">>,
    <<"f","n"," ","h","o","p"," ","{">>,
    <<" "," "," "," ","s","t","e","p",";">>,
    <<"}">>,
    <<>> >>

\* import, lib/util.nk: imports from the current directory and from an import path
\*     fn skip {
\*         left;
\*     }
\*
Src_import_lib_util_nk == <<
    <<"f","n"," ","s","k","i","p"," ","{">>,
    <<" "," "," "," ","l","e","f","t",";">>,
    <<"}">>,
    <<>> >>

\* cycle, main.nk: a cyclical import
\*     import lib.nk
\*     fn main {
\*         step;
\*     }
\*
Src_cycle_main_nk == <<
    <<"i","m","p","o","r","t"," ","l","i","b",".","n","k">>,
    <<"f","n"," ","m","a","i","n"," ","{">>,
    <<" "," "," "," ","s","t","e","p",";">>,
    <<"}">>,
    <<>> >>

\* cycle, lib.nk: a cyclical import
\*     import main.nk
\*
Src_cycle_lib_nk == <<
    <<"i","m","p","o","r","t"," ","m","a","i","n",".","n","k">>,
    <<>> >>

\* missing, main.nk: an import that is not found
\*     import none.nk
\*
Src_missing_main_nk == <<
    <<"i","m","p","o","r","t"," ","n","o","n","e",".","n","k">>,
    <<>> >>

\* outside, main.nk: an expression outside of a fn
\*     step;
\*
Src_outside_main_nk == <<
    <<"s","t","e","p",";">>,
    <<>> >>

\* unresolved, main.nk: an unresolved template target and a for loop over the safe maximum
\*     fn main {
\*         [x];
\*         for 70000 {
\*         }
\*     }
\*
Src_unresolved_main_nk == <<
    <<"f","n"," ","m","a","i","n"," ","{">>,
    <<" "," "," "," ","[","x","]",";">>,
    <<" "," "," "," ","f","o","r"," ","7","0","0","0","0"," ","{">>,
    <<" "," "," "," ","}">>,
    <<"}">>,
    <<>> >>

\* inner_fn, main.nk: a fn definition inside a body
\*     fn main {
\*         fn x {
\*         }
\*     }
\*
Src_inner_fn_main_nk == <<
    <<"f","n"," ","m","a","i","n"," ","{">>,
    <<" "," "," "," ","f","n"," ","x"," ","{">>,
    <<" "," "," "," ","}">>,
    <<"}">>,
    <<>> >>

\* bracketless, main.nk: a bracket-less if
\*     fn main {
\*         if is_wall;
\*     }
\*
Src_bracketless_main_nk == <<
    <<"f","n"," ","m","a","i","n"," ","{">>,
    <<" "," "," "," ","i","f"," ","i","s","_","w","a","l","l",";">>,
    <<"}">>,
    <<>> >>

\* never_closed, main.nk: a body whose closing brace is in a comment
\*     fn main {
\*         while is_wall {
\*             step;
\*         // }
\*     }
\*
Src_never_closed_main_nk == <<
    <<"f","n"," ","m","a","i","n"," ","{">>,
    <<" "," "," "," ","w","h","i","l","e"," ","i","s","_","w","a","l","l"," ","{">>,
    <<" "," "," "," "," "," "," "," ","s","t","e","p",";">>,
    <<" "," "," "," ","/","/"," ","}">>,
    <<"}">>,
    <<>> >>

\* else_after_call, main.nk: an else after a call whose emitted line ends like the end keyword of one dialect
\*     fn sEND {
\*         step;
\*     }
\*     fn main {
\*         if is_wall {
\*             left;
\*         }
\*         sEND;
\*         else {
\*             step;
\*         }
\*     }
\*
Src_else_after_call_main_nk == <<
    <<"f","n"," ","s","E","N","D"," ","{">>,
    <<" "," "," "," ","s","t","e","p",";">>,
    <<"}">>,
    <<"f","n"," ","m","a","i","n"," ","{">>,
    <<" "," "," "," ","i","f"," ","i","s","_","w","a","l","l"," ","{">>,
    <<" "," "," "," "," "," "," "," ","l","e","f","t",";">>,
    <<" "," "," "," ","}">>,
    <<" "," "," "," ","s","E","N","D",";">>,
    <<" "," "," "," ","e","l","s","e"," ","{">>,
    <<" "," "," "," "," "," "," "," ","s","t","e","p",";">>,
    <<" "," "," "," ","}">>,
    <<"}">>,
    <<>> >>

\* twice_given, main.nk: the same file given twice on the command line
\*     fn main {
\*         step;
\*     }
\*
Src_twice_given_main_nk == <<
    <<"f","n"," ","m","a","i","n"," ","{">>,
    <<" "," "," "," ","s","t","e","p",";">>,
    <<"}">>,
    <<>> >>

\* caps, main.nk: two fn names that differ only in case
\*     fn Main {
\*         step;
\*     }
\*     fn main {
\*         left;
\*     }
\*
Src_caps_main_nk == <<
    <<"f","n"," ","M","a","i","n"," ","{">>,
    <<" "," "," "," ","s","t","e","p",";">>,
    <<"}">>,
    <<"f","n"," ","m","a","i","n"," ","{">>,
    <<" "," "," "," ","l","e","f","t",";">>,
    <<"}">>,
    <<>> >>

\* pop_unknown, main.nk: a pop of a name that was never pushed
\*     fn main {
\*         pop s;
\*     }
\*
Src_pop_unknown_main_nk == <<
    <<"f","n"," ","m","a","i","n"," ","{">>,
    <<" "," "," "," ","p","o","p"," ","s",";">>,
    <<"}">>,
    <<>> >>

\* pop_twice, main.nk: a pop of a name that was popped already
\*     fn a slicing {
\*         left;
\*         commit;
\*     }
\*     fn main {
\*         s = push a;
\*         pop s;
\*         pop s;
\*     }
\*
Src_pop_twice_main_nk == <<
    <<"f","n"," ","a"," ","s","l","i","c","i","n","g"," ","{">>,
    <<" "," "," "," ","l","e","f","t",";">>,
    <<" "," "," "," ","c","o","m","m","i","t",";">>,
    <<"}">>,
    <<"f","n"," ","m","a","i","n"," ","{">>,
    <<" "," "," "," ","s"," ","="," ","p","u","s","h"," ","a",";">>,
    <<" "," "," "," ","p","o","p"," ","s",";">>,
    <<" "," "," "," ","p","o","p"," ","s",";">>,
    <<"}">>,
    <<>> >>

\* pop_order, main.nk: a pop of an active slice that is not the last one pushed
\*     fn a slicing {
\*         left;
\*         commit;
\*     }
\*     fn main {
\*         s = push a;
\*         t = push a;
\*         pop s;
\*     }
\*
Src_pop_order_main_nk == <<
    <<"f","n"," ","a"," ","s","l","i","c","i","n","g"," ","{">>,
    <<" "," "," "," ","l","e","f","t",";">>,
    <<" "," "," "," ","c","o","m","m","i","t",";">>,
    <<"}">>,
    <<"f","n"," ","m","a","i","n"," ","{">>,
    <<" "," "," "," ","s"," ","="," ","p","u","s","h"," ","a",";">>,
    <<" "," "," "," ","t"," ","="," ","p","u","s","h"," ","a",";">>,
    <<" "," "," "," ","p","o","p"," ","s",";">>,
    <<"}">>,
    <<>> >>

\* push_reuse, main.nk: a push under the name of an active slice
\*     fn a slicing {
\*         left;
\*         commit;
\*     }
\*     fn main {
\*         s = push a;
\*         s = push a;
\*     }
\*
Src_push_reuse_main_nk == <<
    <<"f","n"," ","a"," ","s","l","i","c","i","n","g"," ","{">>,
    <<" "," "," "," ","l","e","f","t",";">>,
    <<" "," "," "," ","c","o","m","m","i","t",";">>,
    <<"}">>,
    <<"f","n"," ","m","a","i","n"," ","{">>,
    <<" "," "," "," ","s"," ","="," ","p","u","s","h"," ","a",";">>,
    <<" "," "," "," ","s"," ","="," ","p","u","s","h"," ","a",";">>,
    <<"}">>,
    <<>> >>

\* unpopped, main.nk: a body that ends while a slice is active
\*     fn a slicing {
\*         left;
\*         commit;
\*     }
\*     fn main {
\*         s = push a;
\*     }
\*
Src_unpopped_main_nk == <<
    <<"f","n"," ","a"," ","s","l","i","c","i","n","g"," ","{">>,
    <<" "," "," "," ","l","e","f","t",";">>,
    <<" "," "," "," ","c","o","m","m","i","t",";">>,
    <<"}">>,
    <<"f","n"," ","m","a","i","n"," ","{">>,
    <<" "," "," "," ","s"," ","="," ","p","u","s","h"," ","a",";">>,
    <<"}">>,
    <<>> >>

\* repush, main.nk: a slice name pushed again after its pop
\*     fn a slicing {
\*         left;
\*         commit;
\*     }
\*     fn main {
\*         s = push a;
\*         pop s;
\*         s = push a;
\*         step;
\*         pop s;
\*     }
\*
Src_repush_main_nk == <<
    <<"f","n"," ","a"," ","s","l","i","c","i","n","g"," ","{">>,
    <<" "," "," "," ","l","e","f","t",";">>,
    <<" "," "," "," ","c","o","m","m","i","t",";">>,
    <<"}">>,
    <<"f","n"," ","m","a","i","n"," ","{">>,
    <<" "," "," "," ","s"," ","="," ","p","u","s","h"," ","a",";">>,
    <<" "," "," "," ","p","o","p"," ","s",";">>,
    <<" "," "," "," ","s"," ","="," ","p","u","s","h"," ","a",";">>,
    <<" "," "," "," ","s","t","e","p",";">>,
    <<" "," "," "," ","p","o","p"," ","s",";">>,
    <<"}">>,
    <<>> >>

\* push_in_if, main.nk: a push inside an if block
\*     fn a slicing {
\*         left;
\*         commit;
\*     }
\*     fn main {
\*         step;
\*         if is_wall {
\*             s = push a;
\*         }
\*     }
\*
Src_push_in_if_main_nk == <<
    <<"f","n"," ","a"," ","s","l","i","c","i","n","g"," ","{">>,
    <<" "," "," "," ","l","e","f","t",";">>,
    <<" "," "," "," ","c","o","m","m","i","t",";">>,
    <<"}">>,
    <<"f","n"," ","m","a","i","n"," ","{">>,
    <<" "," "," "," ","s","t","e","p",";">>,
    <<" "," "," "," ","i","f"," ","i","s","_","w","a","l","l"," ","{">>,
    <<" "," "," "," "," "," "," "," ","s"," ","="," ","p","u","s","h"," ","a",";">>,
    <<" "," "," "," ","}">>,
    <<"}">>,
    <<>> >>

\* pop_in_while, main.nk: a pop inside a while block
\*     fn a slicing {
\*         left;
\*         commit;
\*     }
\*     fn main {
\*         s = push a;
\*         while not_wall {
\*             pop s;
\*         }
\*     }
\*
Src_pop_in_while_main_nk == <<
    <<"f","n"," ","a"," ","s","l","i","c","i","n","g"," ","{">>,
    <<" "," "," "," ","l","e","f","t",";">>,
    <<" "," "," "," ","c","o","m","m","i","t",";">>,
    <<"}">>,
    <<"f","n"," ","m","a","i","n"," ","{">>,
    <<" "," "," "," ","s"," ","="," ","p","u","s","h"," ","a",";">>,
    <<" "," "," "," ","w","h","i","l","e"," ","n","o","t","_","w","a","l","l"," ","{">>,
    <<" "," "," "," "," "," "," "," ","p","o","p"," ","s",";">>,
    <<" "," "," "," ","}">>,
    <<"}">>,
    <<>> >>

\* commit_args, main.nk: a commit with template arguments, with and without a continuation
\*     fn a slicing {
\*         left;
\*         commit(step);
\*     }
\*     fn main {
\*         s = push a;
\*         pop s;
\*         a;
\*     }
\*
Src_commit_args_main_nk == <<
    <<"f","n"," ","a"," ","s","l","i","c","i","n","g"," ","{">>,
    <<" "," "," "," ","l","e","f","t",";">>,
    <<" "," "," "," ","c","o","m","m","i","t","(","s","t","e","p",")",";">>,
    <<"}">>,
    <<"f","n"," ","m","a","i","n"," ","{">>,
    <<" "," "," "," ","s"," ","="," ","p","u","s","h"," ","a",";">>,
    <<" "," "," "," ","p","o","p"," ","s",";">>,
    <<" "," "," "," ","a",";">>,
    <<"}">>,
    <<>> >>

\* commit_lambda, main.nk: a commit in a lambda of a pushed slicing fn
\*     fn a slicing {
\*         (y) {
\*             [y];
\*             commit;
\*         }(left);
\*     }
\*     fn main {
\*         s = push a;
\*         pop s;
\*     }
\*
Src_commit_lambda_main_nk == <<
    <<"f","n"," ","a"," ","s","l","i","c","i","n","g"," ","{">>,
    <<" "," "," "," ","(","y",")"," ","{">>,
    <<" "," "," "," "," "," "," "," ","[","y","]",";">>,
    <<" "," "," "," "," "," "," "," ","c","o","m","m","i","t",";">>,
    <<" "," "," "," ","}","(","l","e","f","t",")",";">>,
    <<"}">>,
    <<"f","n"," ","m","a","i","n"," ","{">>,
    <<" "," "," "," ","s"," ","="," ","p","u","s","h"," ","a",";">>,
    <<" "," "," "," ","p","o","p"," ","s",";">>,
    <<"}">>,
    <<>> >>

\* commit_plain, main.nk: a commit in a fn that is not slicing
\*     fn main {
\*         step;
\*         commit;
\*     }
\*
Src_commit_plain_main_nk == <<
    <<"f","n"," ","m","a","i","n"," ","{">>,
    <<" "," "," "," ","s","t","e","p",";">>,
    <<" "," "," "," ","c","o","m","m","i","t",";">>,
    <<"}">>,
    <<>> >>

\* push_plain, main.nk: a push of a fn that is not slicing
\*     fn hop {
\*         step;
\*     }
\*     fn main {
\*         s = push hop;
\*         pop s;
\*     }
\*
Src_push_plain_main_nk == <<
    <<"f","n"," ","h","o","p"," ","{">>,
    <<" "," "," "," ","s","t","e","p",";">>,
    <<"}">>,
    <<"f","n"," ","m","a","i","n"," ","{">>,
    <<" "," "," "," ","s"," ","="," ","p","u","s","h"," ","h","o","p",";">>,
    <<" "," "," "," ","p","o","p"," ","s",";">>,
    <<"}">>,
    <<>> >>

\* push_undefined, main.nk: a push of a fn that is not defined
\*     fn main {
\*         s = push nowhere;
\*         pop s;
\*     }
\*
Src_push_undefined_main_nk == <<
    <<"f","n"," ","m","a","i","n"," ","{">>,
    <<" "," "," "," ","s"," ","="," ","p","u","s","h"," ","n","o","w","h","e","r","e",";">>,
    <<" "," "," "," ","p","o","p"," ","s",";">>,
    <<"}">>,
    <<>> >>

\* given_imported, main.nk: a file that is imported and also given on the command line
\*     import lib.nk
\*     fn main {
\*         hop;
\*     }
\*
Src_given_imported_main_nk == <<
    <<"i","m","p","o","r","t"," ","l","i","b",".","n","k">>,
    <<"f","n"," ","m","a","i","n"," ","{">>,
    <<" "," "," "," ","h","o","p",";">>,
    <<"}">>,
    <<>> >>

\* given_imported, lib.nk: a file that is imported and also given on the command line
\*     fn hop {
\*         step;
\*     }
\*
Src_given_imported_lib_nk == <<
    <<"f","n"," ","h","o","p"," ","{">>,
    <<" "," "," "," ","s","t","e","p",";">>,
    <<"}">>,
    <<>> >>

\* fn_else, main.nk: a fn named like the else keyword
\*     fn else {
\*         step;
\*     }
\*     fn main {
\*         else;
\*     }
\*
Src_fn_else_main_nk == <<
    <<"f","n"," ","e","l","s","e"," ","{">>,
    <<" "," "," "," ","s","t","e","p",";">>,
    <<"}">>,
    <<"f","n"," ","m","a","i","n"," ","{">>,
    <<" "," "," "," ","e","l","s","e",";">>,
    <<"}">>,
    <<>> >>

\* lambda_name, main.nk: a fn declared under the name a lambda of main gets
\*     fn main_lambda_n0 {
\*         left;
\*     }
\*     fn main {
\*         (y) {
\*             [y];
\*         }(step);
\*     }
\*
Src_lambda_name_main_nk == <<
    <<"f","n"," ","m","a","i","n","_","l","a","m","b","d","a","_","n","0"," ","{">>,
    <<" "," "," "," ","l","e","f","t",";">>,
    <<"}">>,
    <<"f","n"," ","m","a","i","n"," ","{">>,
    <<" "," "," "," ","(","y",")"," ","{">>,
    <<" "," "," "," "," "," "," "," ","[","y","]",";">>,
    <<" "," "," "," ","}","(","s","t","e","p",")",";">>,
    <<"}">>,
    <<>> >>

\* lambda_name_after, main.nk: a fn declared after main under the name of main's lambda
\*     fn main {
\*         (y) {
\*             [y];
\*         }(step);
\*     }
\*     fn main_lambda_n0 {
\*         left;
\*     }
\*
Src_lambda_name_after_main_nk == <<
    <<"f","n"," ","m","a","i","n"," ","{">>,
    <<" "," "," "," ","(","y",")"," ","{">>,
    <<" "," "," "," "," "," "," "," ","[","y","]",";">>,
    <<" "," "," "," ","}","(","s","t","e","p",")",";">>,
    <<"}">>,
    <<"f","n"," ","m","a","i","n","_","l","a","m","b","d","a","_","n","0"," ","{">>,
    <<" "," "," "," ","l","e","f","t",";">>,
    <<"}">>,
    <<>> >>

\* lambda_plain, main.nk: a commit in a lambda of a slicing fn that is called, not pushed
\*     fn a slicing {
\*         (y) {
\*             [y];
\*             commit;
\*         }(left);
\*     }
\*     fn main {
\*         a;
\*     }
\*
Src_lambda_plain_main_nk == <<
    <<"f","n"," ","a"," ","s","l","i","c","i","n","g"," ","{">>,
    <<" "," "," "," ","(","y",")"," ","{">>,
    <<" "," "," "," "," "," "," "," ","[","y","]",";">>,
    <<" "," "," "," "," "," "," "," ","c","o","m","m","i","t",";">>,
    <<" "," "," "," ","}","(","l","e","f","t",")",";">>,
    <<"}">>,
    <<"f","n"," ","m","a","i","n"," ","{">>,
    <<" "," "," "," ","a",";">>,
    <<"}">>,
    <<>> >>

\* lambda_both, main.nk: a slicing fn with a committing lambda, pushed and then called
\*     fn a slicing {
\*         (y) {
\*             [y];
\*             commit;
\*         }(left);
\*     }
\*     fn main {
\*         s = push a;
\*         pop s;
\*         a;
\*     }
\*
Src_lambda_both_main_nk == <<
    <<"f","n"," ","a"," ","s","l","i","c","i","n","g"," ","{">>,
    <<" "," "," "," ","(","y",")"," ","{">>,
    <<" "," "," "," "," "," "," "," ","[","y","]",";">>,
    <<" "," "," "," "," "," "," "," ","c","o","m","m","i","t",";">>,
    <<" "," "," "," ","}","(","l","e","f","t",")",";">>,
    <<"}">>,
    <<"f","n"," ","m","a","i","n"," ","{">>,
    <<" "," "," "," ","s"," ","="," ","p","u","s","h"," ","a",";">>,
    <<" "," "," "," ","p","o","p"," ","s",";">>,
    <<" "," "," "," ","a",";">>,
    <<"}">>,
    <<>> >>

\* nested_lambda, main.nk: a lambda in a lambda, under two instances of the enclosing fn
\*     fn twice(x) {
\*         (y) {
\*             [x];
\*             (z) {
\*                 [x];
\*                 [y];
\*                 [z];
\*             }(pick);
\*         }(left);
\*     }
\*     fn main {
\*         twice(step);
\*         twice(place);
\*     }
\*
Src_nested_lambda_main_nk == <<
    <<"f","n"," ","t","w","i","c","e","(","x",")"," ","{">>,
    <<" "," "," "," ","(","y",")"," ","{">>,
    <<" "," "," "," "," "," "," "," ","[","x","]",";">>,
    <<" "," "," "," "," "," "," "," ","(","z",")"," ","{">>,
    <<" "," "," "," "," "," "," "," "," "," "," "," ","[","x","]",";">>,
    <<" "," "," "," "," "," "," "," "," "," "," "," ","[","y","]",";">>,
    <<" "," "," "," "," "," "," "," "," "," "," "," ","[","z","]",";">>,
    <<" "," "," "," "," "," "," "," ","}","(","p","i","c","k",")",";">>,
    <<" "," "," "," ","}","(","l","e","f","t",")",";">>,
    <<"}">>,
    <<"f","n"," ","m","a","i","n"," ","{">>,
    <<" "," "," "," ","t","w","i","c","e","(","s","t","e","p",")",";">>,
    <<" "," "," "," ","t","w","i","c","e","(","p","l","a","c","e",")",";">>,
    <<"}">>,
    <<>> >>

\* recall_args, main.nk: recalls with a template argument, in a template fn and in main
\*     fn spin(x) {
\*         [x];
\*         if is_wall {
\*             recall(left);
\*         }
\*     }
\*     fn main {
\*         spin(step);
\*         if is_wall {
\*             recall(left);
\*         }
\*     }
\*
Src_recall_args_main_nk == <<
    <<"f","n"," ","s","p","i","n","(","x",")"," ","{">>,
    <<" "," "," "," ","[","x","]",";">>,
    <<" "," "," "," ","i","f"," ","i","s","_","w","a","l","l"," ","{">>,
    <<" "," "," "," "," "," "," "," ","r","e","c","a","l","l","(","l","e","f","t",")",";">>,
    <<" "," "," "," ","}">>,
    <<"}">>,
    <<"f","n"," ","m","a","i","n"," ","{">>,
    <<" "," "," "," ","s","p","i","n","(","s","t","e","p",")",";">>,
    <<" "," "," "," ","i","f"," ","i","s","_","w","a","l","l"," ","{">>,
    <<" "," "," "," "," "," "," "," ","r","e","c","a","l","l","(","l","e","f","t",")",";">>,
    <<" "," "," "," ","}">>,
    <<"}">>,
    <<>> >>

\* chain, main.nk: plain calls of slicing and other fns from a pushed fn and from a pushed segment
\*     fn turn(x) {
\*         [x];
\*     }
\*     fn a slicing {
\*         left;
\*         commit;
\*     }
\*     fn b slicing {
\*         turn(step);
\*         a;
\*     }
\*     fn main {
\*         s = push b;
\*         b;
\*         pop s;
\*     }
\*
Src_chain_main_nk == <<
    <<"f","n"," ","t","u","r","n","(","x",")"," ","{">>,
    <<" "," "," "," ","[","x","]",";">>,
    <<"}">>,
    <<"f","n"," ","a"," ","s","l","i","c","i","n","g"," ","{">>,
    <<" "," "," "," ","l","e","f","t",";">>,
    <<" "," "," "," ","c","o","m","m","i","t",";">>,
    <<"}">>,
    <<"f","n"," ","b"," ","s","l","i","c","i","n","g"," ","{">>,
    <<" "," "," "," ","t","u","r","n","(","s","t","e","p",")",";">>,
    <<" "," "," "," ","a",";">>,
    <<"}">>,
    <<"f","n"," ","m","a","i","n"," ","{">>,
    <<" "," "," "," ","s"," ","="," ","p","u","s","h"," ","b",";">>,
    <<" "," "," "," ","b",";">>,
    <<" "," "," "," ","p","o","p"," ","s",";">>,
    <<"}">>,
    <<>> >>

\* forward, main.nk: a fn whose name starts with a keyword
\*     fn forward {
\*         step;
\*     }
\*     fn main {
\*         forward;
\*     }
\*
Src_forward_main_nk == <<
    <<"f","n"," ","f","o","r","w","a","r","d"," ","{">>,
    <<" "," "," "," ","s","t","e","p",";">>,
    <<"}">>,
    <<"f","n"," ","m","a","i","n"," ","{">>,
    <<" "," "," "," ","f","o","r","w","a","r","d",";">>,
    <<"}">>,
    <<>> >>

\* lambda_taken, main.nk: a lambda of a templated fn whose auto-name is a declared fn
\*     fn twice_lambda_n0 {
\*         left;
\*     }
\*     fn twice(x) {
\*         {
\*             [x];
\*         };
\*     }
\*     fn main {
\*         twice(step);
\*         twice(place);
\*     }
\*
Src_lambda_taken_main_nk == <<
    <<"f","n"," ","t","w","i","c","e","_","l","a","m","b","d","a","_","n","0"," ","{">>,
    <<" "," "," "," ","l","e","f","t",";">>,
    <<"}">>,
    <<"f","n"," ","t","w","i","c","e","(","x",")"," ","{">>,
    <<" "," "," "," ","{">>,
    <<" "," "," "," "," "," "," "," ","[","x","]",";">>,
    <<" "," "," "," ","}",";">>,
    <<"}">>,
    <<"f","n"," ","m","a","i","n"," ","{">>,
    <<" "," "," "," ","t","w","i","c","e","(","s","t","e","p",")",";">>,
    <<" "," "," "," ","t","w","i","c","e","(","p","l","a","c","e",")",";">>,
    <<"}">>,
    <<>> >>

\* empty_else, main.nk: an if without else next to the same if with an empty else
\*     fn bare {
\*         if is_wall {
\*             step;
\*         }
\*     }
\*     fn empty {
\*         if is_wall {
\*             step;
\*         } else {
\*         }
\*     }
\*     fn main {
\*         bare;
\*         empty;
\*     }
\*
Src_empty_else_main_nk == <<
    <<"f","n"," ","b","a","r","e"," ","{">>,
    <<" "," "," "," ","i","f"," ","i","s","_","w","a","l","l"," ","{">>,
    <<" "," "," "," "," "," "," "," ","s","t","e","p",";">>,
    <<" "," "," "," ","}">>,
    <<"}">>,
    <<"f","n"," ","e","m","p","t","y"," ","{">>,
    <<" "," "," "," ","i","f"," ","i","s","_","w","a","l","l"," ","{">>,
    <<" "," "," "," "," "," "," "," ","s","t","e","p",";">>,
    <<" "," "," "," ","}"," ","e","l","s","e"," ","{">>,
    <<" "," "," "," ","}">>,
    <<"}">>,
    <<"f","n"," ","m","a","i","n"," ","{">>,
    <<" "," "," "," ","b","a","r","e",";">>,
    <<" "," "," "," ","e","m","p","t","y",";">>,
    <<"}">>,
    <<>> >>

\* import_both, main.nk: an import that matches in the current directory and in an import path
\*     import util.nk
\*     fn main {
\*         skip;
\*         jump;
\*     }
\*
Src_import_both_main_nk == <<
    <<"i","m","p","o","r","t"," ","u","t","i","l",".","n","k">>,
    <<"f","n"," ","m","a","i","n"," ","{">>,
    <<" "," "," "," ","s","k","i","p",";">>,
    <<" "," "," "," ","j","u","m","p",";">>,
    <<"}">>,
    <<>> >>

\* import_both, util.nk: an import that matches in the current directory and in an import path
\*     fn skip {
\*         left;
\*     }
\*
Src_import_both_util_nk == <<
    <<"f","n"," ","s","k","i","p"," ","{">>,
    <<" "," "," "," ","l","e","f","t",";">>,
    <<"}">>,
    <<>> >>

\* import_both, lib/util.nk: an import that matches in the current directory and in an import path
\*     fn jump {
\*         step;
\*     }
\*
Src_import_both_lib_util_nk == <<
    <<"f","n"," ","j","u","m","p"," ","{">>,
    <<" "," "," "," ","s","t","e","p",";">>,
    <<"}">>,
    <<>> >>

\* mutual, main.nk: two top-level fns that call each other
\*     fn ping {
\*         step;
\*         pong;
\*     }
\*     fn pong {
\*         left;
\*         ping;
\*     }
\*     fn main {
\*         ping;
\*     }
\*
Src_mutual_main_nk == <<
    <<"f","n"," ","p","i","n","g"," ","{">>,
    <<" "," "," "," ","s","t","e","p",";">>,
    <<" "," "," "," ","p","o","n","g",";">>,
    <<"}">>,
    <<"f","n"," ","p","o","n","g"," ","{">>,
    <<" "," "," "," ","l","e","f","t",";">>,
    <<" "," "," "," ","p","i","n","g",";">>,
    <<"}">>,
    <<"f","n"," ","m","a","i","n"," ","{">>,
    <<" "," "," "," ","p","i","n","g",";">>,
    <<"}">>,
    <<>> >>

\* late_bound, main.nk: a template fn whose body calls a fn declared after it
\*     fn twice(x) {
\*         hop;
\*         [x];
\*     }
\*     fn hop {
\*         step;
\*     }
\*     fn main {
\*         twice(left);
\*     }
\*
Src_late_bound_main_nk == <<
    <<"f","n"," ","t","w","i","c","e","(","x",")"," ","{">>,
    <<" "," "," "," ","h","o","p",";">>,
    <<" "," "," "," ","[","x","]",";">>,
    <<"}">>,
    <<"f","n"," ","h","o","p"," ","{">>,
    <<" "," "," "," ","s","t","e","p",";">>,
    <<"}">>,
    <<"f","n"," ","m","a","i","n"," ","{">>,
    <<" "," "," "," ","t","w","i","c","e","(","l","e","f","t",")",";">>,
    <<"}">>,
    <<>> >>

\* push_later, main.nk: a push of a fn declared after the pushing fn
\*     fn main {
\*         s = push tail;
\*         pop s;
\*         tail;
\*     }
\*     fn tail slicing {
\*         step;
\*         commit;
\*     }
\*
Src_push_later_main_nk == <<
    <<"f","n"," ","m","a","i","n"," ","{">>,
    <<" "," "," "," ","s"," ","="," ","p","u","s","h"," ","t","a","i","l",";">>,
    <<" "," "," "," ","p","o","p"," ","s",";">>,
    <<" "," "," "," ","t","a","i","l",";">>,
    <<"}">>,
    <<"f","n"," ","t","a","i","l"," ","s","l","i","c","i","n","g"," ","{">>,
    <<" "," "," "," ","s","t","e","p",";">>,
    <<" "," "," "," ","c","o","m","m","i","t",";">>,
    <<"}">>,
    <<>> >>

\* upper_name, main.nk: a fn whose upper-cased name is a VisK99 keyword outside ASCII
\*     fn polož {
\*         step;
\*     }
\*     fn main {
\*         polož;
\*     }
\*
Src_upper_name_main_nk == <<
    <<"f","n"," ","p","o","l","o","U+017E"," ","{">>,
    <<" "," "," "," ","s","t","e","p",";">>,
    <<"}">>,
    <<"f","n"," ","m","a","i","n"," ","{">>,
    <<" "," "," "," ","p","o","l","o","U+017E",";">>,
    <<"}">>,
    <<>> >>

\* upper_long, main.nk: a fn name that grows when upper-cased
\*     fn straße {
\*         left;
\*     }
\*     fn main {
\*         straße;
\*     }
\*
Src_upper_long_main_nk == <<
    <<"f","n"," ","s","t","r","a","U+00DF","e"," ","{">>,
    <<" "," "," "," ","l","e","f","t",";">>,
    <<"}">>,
    <<"f","n"," ","m","a","i","n"," ","{">>,
    <<" "," "," "," ","s","t","r","a","U+00DF","e",";">>,
    <<"}">>,
    <<>> >>

\* punct_values, main.nk: two template values that are single punctuation characters
\*     fn a(x) {
\*         step;
\*     }
\*     fn main {
\*         a(.);
\*         a(!);
\*     }
\*
Src_punct_values_main_nk == <<
    <<"f","n"," ","a","(","x",")"," ","{">>,
    <<" "," "," "," ","s","t","e","p",";">>,
    <<"}">>,
    <<"f","n"," ","m","a","i","n"," ","{">>,
    <<" "," "," "," ","a","(",".",")",";">>,
    <<" "," "," "," ","a","(","!",")",";">>,
    <<"}">>,
    <<>> >>

\* inc_dot, main.nk: an import path written with a leading ./
\*     import util.nk
\*     fn main {
\*         jump;
\*     }
\*
Src_inc_dot_main_nk == <<
    <<"i","m","p","o","r","t"," ","u","t","i","l",".","n","k">>,
    <<"f","n"," ","m","a","i","n"," ","{">>,
    <<" "," "," "," ","j","u","m","p",";">>,
    <<"}">>,
    <<>> >>

\* inc_dot, lib/util.nk: an import path written with a leading ./
\*     fn jump {
\*         step;
\*     }
\*
Src_inc_dot_lib_util_nk == <<
    <<"f","n"," ","j","u","m","p"," ","{">>,
    <<" "," "," "," ","s","t","e","p",";">>,
    <<"}">>,
    <<>> >>

\* inc_slash, main.nk: an import path with a trailing slash, and the same file under another spelling
\*     import util.nk
\*     import lib/./util.nk
\*     fn main {
\*         jump;
\*     }
\*
Src_inc_slash_main_nk == <<
    <<"i","m","p","o","r","t"," ","u","t","i","l",".","n","k">>,
    <<"i","m","p","o","r","t"," ","l","i","b","/",".","/","u","t","i","l",".","n","k">>,
    <<"f","n"," ","m","a","i","n"," ","{">>,
    <<" "," "," "," ","j","u","m","p",";">>,
    <<"}">>,
    <<>> >>

\* inc_slash, lib/util.nk: an import path with a trailing slash, and the same file under another spelling
\*     fn jump {
\*         step;
\*     }
\*
Src_inc_slash_lib_util_nk == <<
    <<"f","n"," ","j","u","m","p"," ","{">>,
    <<" "," "," "," ","s","t","e","p",";">>,
    <<"}">>,
    <<>> >>

\* import_sub, main.nk: imports that name a sub-directory and the current directory
\*     import lib/util.nk
\*     import ./side.nk
\*     import side.nk
\*     fn main {
\*         jump;
\*         skip;
\*     }
\*
Src_import_sub_main_nk == <<
    <<"i","m","p","o","r","t"," ","l","i","b","/","u","t","i","l",".","n","k">>,
    <<"i","m","p","o","r","t"," ",".","/","s","i","d","e",".","n","k">>,
    <<"i","m","p","o","r","t"," ","s","i","d","e",".","n","k">>,
    <<"f","n"," ","m","a","i","n"," ","{">>,
    <<" "," "," "," ","j","u","m","p",";">>,
    <<" "," "," "," ","s","k","i","p",";">>,
    <<"}">>,
    <<>> >>

\* import_sub, lib/util.nk: imports that name a sub-directory and the current directory
\*     fn jump {
\*         step;
\*     }
\*
Src_import_sub_lib_util_nk == <<
    <<"f","n"," ","j","u","m","p"," ","{">>,
    <<" "," "," "," ","s","t","e","p",";">>,
    <<"}">>,
    <<>> >>

\* import_sub, side.nk: imports that name a sub-directory and the current directory
\*     fn skip {
\*         left;
\*     }
\*
Src_import_sub_side_nk == <<
    <<"f","n"," ","s","k","i","p"," ","{">>,
    <<" "," "," "," ","l","e","f","t",";">>,
    <<"}">>,
    <<>> >>

\* import_dir, main.nk: an import of a directory
\*     import lib
\*     fn main {
\*         step;
\*     }
\*
Src_import_dir_main_nk == <<
    <<"i","m","p","o","r","t"," ","l","i","b">>,
    <<"f","n"," ","m","a","i","n"," ","{">>,
    <<" "," "," "," ","s","t","e","p",";">>,
    <<"}">>,
    <<>> >>

\* import_dir, lib/util.nk: an import of a directory
\*     fn jump {
\*         step;
\*     }
\*
Src_import_dir_lib_util_nk == <<
    <<"f","n"," ","j","u","m","p"," ","{">>,
    <<" "," "," "," ","s","t","e","p",";">>,
    <<"}">>,
    <<>> >>

\* import_empty, main.nk: an import whose file name is empty
\*     import // x
\*     fn main {
\*         step;
\*     }
\*
Src_import_empty_main_nk == <<
    <<"i","m","p","o","r","t"," ","/","/"," ","x">>,
    <<"f","n"," ","m","a","i","n"," ","{">>,
    <<" "," "," "," ","s","t","e","p",";">>,
    <<"}">>,
    <<>> >>

\* argv_dir, main.nk: a directory on the command line
\*     fn main {
\*         step;
\*     }
\*
Src_argv_dir_main_nk == <<
    <<"f","n"," ","m","a","i","n"," ","{">>,
    <<" "," "," "," ","s","t","e","p",";">>,
    <<"}">>,
    <<>> >>

\* argv_dir, lib/util.nk: a directory on the command line
\*     fn jump {
\*         step;
\*     }
\*
Src_argv_dir_lib_util_nk == <<
    <<"f","n"," ","j","u","m","p"," ","{">>,
    <<" "," "," "," ","s","t","e","p",";">>,
    <<"}">>,
    <<>> >>

\* argv_spelled, main.nk: a source file spelled through a missing directory, and again with a trailing slash
\*     fn main {
\*         step;
\*     }
\*
Src_argv_spelled_main_nk == <<
    <<"f","n"," ","m","a","i","n"," ","{">>,
    <<" "," "," "," ","s","t","e","p",";">>,
    <<"}">>,
    <<>> >>

\* for_big, main.nk: a loop count of seven digits
\*     fn main {
\*         for 1000000 {
\*             step;
\*         }
\*     }
\*
Src_for_big_main_nk == <<
    <<"f","n"," ","m","a","i","n"," ","{">>,
    <<" "," "," "," ","f","o","r"," ","1","0","0","0","0","0","0"," ","{">>,
    <<" "," "," "," "," "," "," "," ","s","t","e","p",";">>,
    <<" "," "," "," ","}">>,
    <<"}">>,
    <<>> >>

\* for_hex, main.nk: a loop count with a radix prefix
\*     fn main {
\*         for 0x10 {
\*             step;
\*         }
\*     }
\*
Src_for_hex_main_nk == <<
    <<"f","n"," ","m","a","i","n"," ","{">>,
    <<" "," "," "," ","f","o","r"," ","0","x","1","0"," ","{">>,
    <<" "," "," "," "," "," "," "," ","s","t","e","p",";">>,
    <<" "," "," "," ","}">>,
    <<"}">>,
    <<>> >>

\* for_under, main.nk: a loop count with an underscore
\*     fn main {
\*         for 1_0 {
\*             step;
\*         }
\*     }
\*
Src_for_under_main_nk == <<
    <<"f","n"," ","m","a","i","n"," ","{">>,
    <<" "," "," "," ","f","o","r"," ","1","_","0"," ","{">>,
    <<" "," "," "," "," "," "," "," ","s","t","e","p",";">>,
    <<" "," "," "," ","}">>,
    <<"}">>,
    <<>> >>

\* for_arabic, main.nk: a loop count in Arabic-Indic digits
\*     fn main {
\*         for ٣ {
\*             step;
\*         }
\*     }
\*
Src_for_arabic_main_nk == <<
    <<"f","n"," ","m","a","i","n"," ","{">>,
    <<" "," "," "," ","f","o","r"," ","U+0663"," ","{">>,
    <<" "," "," "," "," "," "," "," ","s","t","e","p",";">>,
    <<" "," "," "," ","}">>,
    <<"}">>,
    <<>> >>

\* for_zeros, main.nk: a loop count of seven zeros
\*     fn main {
\*         for 0000000 {
\*             step;
\*         }
\*     }
\*
Src_for_zeros_main_nk == <<
    <<"f","n"," ","m","a","i","n"," ","{">>,
    <<" "," "," "," ","f","o","r"," ","0","0","0","0","0","0","0"," ","{">>,
    <<" "," "," "," "," "," "," "," ","s","t","e","p",";">>,
    <<" "," "," "," ","}">>,
    <<"}">>,
    <<>> >>

\* for_huge, main.nk: a loop count beyond 64 bits
\*     fn main {
\*         for 12345678901234567890 {
\*             step;
\*         }
\*     }
\*
Src_for_huge_main_nk == <<
    <<"f","n"," ","m","a","i","n"," ","{">>,
    <<" "," "," "," ","f","o","r"," ","1","2","3","4","5","6","7","8","9","0","1","2","3","4","5","6","7","8","9","0"," ","{">>,
    <<" "," "," "," "," "," "," "," ","s","t","e","p",";">>,
    <<" "," "," "," ","}">>,
    <<"}">>,
    <<>> >>

\* eof_return, main.nk: a lambda whose closing brace is commented out, under a declared fn of the lambda's name
\*     fn main_lambda_n0 {
\*         left;
\*     }
\*     fn main {
\*         {
\*             step;
\*         // }
\*     }
\*
Src_eof_return_main_nk == <<
    <<"f","n"," ","m","a","i","n","_","l","a","m","b","d","a","_","n","0"," ","{">>,
    <<" "," "," "," ","l","e","f","t",";">>,
    <<"}">>,
    <<"f","n"," ","m","a","i","n"," ","{">>,
    <<" "," "," "," ","{">>,
    <<" "," "," "," "," "," "," "," ","s","t","e","p",";">>,
    <<" "," "," "," ","/","/"," ","}">>,
    <<"}">>,
    <<>> >>

\* eof_slice, main.nk: the same after a push that is never popped
\*     fn c slicing {
\*         commit;
\*     }
\*     fn main_lambda_n0 {
\*         left;
\*     }
\*     fn main {
\*         s = push c;
\*         {
\*             step;
\*         // }
\*     }
\*
Src_eof_slice_main_nk == <<
    <<"f","n"," ","c"," ","s","l","i","c","i","n","g"," ","{">>,
    <<" "," "," "," ","c","o","m","m","i","t",";">>,
    <<"}">>,
    <<"f","n"," ","m","a","i","n","_","l","a","m","b","d","a","_","n","0"," ","{">>,
    <<" "," "," "," ","l","e","f","t",";">>,
    <<"}">>,
    <<"f","n"," ","m","a","i","n"," ","{">>,
    <<" "," "," "," ","s"," ","="," ","p","u","s","h"," ","c",";">>,
    <<" "," "," "," ","{">>,
    <<" "," "," "," "," "," "," "," ","s","t","e","p",";">>,
    <<" "," "," "," ","/","/"," ","}">>,
    <<"}">>,
    <<>> >>

\* lambda_replain, main.nk: a lambda with a commit, parsed under the pushed instance and reused under the plain call
\*     fn a slicing {
\*         {
\*             commit;
\*         };
\*     }
\*     fn main {
\*         s = push a;
\*         pop s;
\*         a;
\*     }
\*
Src_lambda_replain_main_nk == <<
    <<"f","n"," ","a"," ","s","l","i","c","i","n","g"," ","{">>,
    <<" "," "," "," ","{">>,
    <<" "," "," "," "," "," "," "," ","c","o","m","m","i","t",";">>,
    <<" "," "," "," ","}",";">>,
    <<"}">>,
    <<"f","n"," ","m","a","i","n"," ","{">>,
    <<" "," "," "," ","s"," ","="," ","p","u","s","h"," ","a",";">>,
    <<" "," "," "," ","p","o","p"," ","s",";">>,
    <<" "," "," "," ","a",";">>,
    <<"}">>,
    <<>> >>

\* lambda_first_plain, main.nk: a lambda parsed under a plain call and reused under a push whose template value is commit
\*     fn a(x) slicing {
\*         {
\*             [x];
\*         };
\*     }
\*     fn main {
\*         a(step);
\*         s = push a(commit);
\*         pop s;
\*     }
\*
Src_lambda_first_plain_main_nk == <<
    <<"f","n"," ","a","(","x",")"," ","s","l","i","c","i","n","g"," ","{">>,
    <<" "," "," "," ","{">>,
    <<" "," "," "," "," "," "," "," ","[","x","]",";">>,
    <<" "," "," "," ","}",";">>,
    <<"}">>,
    <<"f","n"," ","m","a","i","n"," ","{">>,
    <<" "," "," "," ","a","(","s","t","e","p",")",";">>,
    <<" "," "," "," ","s"," ","="," ","p","u","s","h"," ","a","(","c","o","m","m","i","t",")",";">>,
    <<" "," "," "," ","p","o","p"," ","s",";">>,
    <<"}">>,
    <<>> >>

\* lambda_user, main.nk: a declared fn under the name of a lambda of a pushed slicing fn
\*     fn a_lambda_n0(t) {
\*         [t];
\*     }
\*     fn a slicing {
\*         {
\*             step;
\*         }(left);
\*         commit;
\*     }
\*     fn main {
\*         s = push a;
\*         pop s;
\*     }
\*
Src_lambda_user_main_nk == <<
    <<"f","n"," ","a","_","l","a","m","b","d","a","_","n","0","(","t",")"," ","{">>,
    <<" "," "," "," ","[","t","]",";">>,
    <<"}">>,
    <<"f","n"," ","a"," ","s","l","i","c","i","n","g"," ","{">>,
    <<" "," "," "," ","{">>,
    <<" "," "," "," "," "," "," "," ","s","t","e","p",";">>,
    <<" "," "," "," ","}","(","l","e","f","t",")",";">>,
    <<" "," "," "," ","c","o","m","m","i","t",";">>,
    <<"}">>,
    <<"f","n"," ","m","a","i","n"," ","{">>,
    <<" "," "," "," ","s"," ","="," ","p","u","s","h"," ","a",";">>,
    <<" "," "," "," ","p","o","p"," ","s",";">>,
    <<"}">>,
    <<>> >>

\* out_dir, main.nk: the output file's name, out.kl, is a directory
\*     fn main {
\*         step;
\*     }
\*
Src_out_dir_main_nk == <<
    <<"f","n"," ","m","a","i","n"," ","{">>,
    <<" "," "," "," ","s","t","e","p",";">>,
    <<"}">>,
    <<>> >>

\* out_dir, out.kl/main.nk: the output file's name, out.kl, is a directory
\*     fn main {
\*         step;
\*     }
\*
Src_out_dir_out_kl_main_nk == <<
    <<"f","n"," ","m","a","i","n"," ","{">>,
    <<" "," "," "," ","s","t","e","p",";">>,
    <<"}">>,
    <<>> >>

\* The inputs of the model
Corpus == <<
    \* 1: plain
    [argv |-> <<<<"m","a","i","n",".","n","k">>>>,
     I |-> <<>>,
     fs |-> (<<"/","c","w","d","/","m","a","i","n",".","n","k">> :> Src_plain_main_nk)],
    \* 2: template
    [argv |-> <<<<"m","a","i","n",".","n","k">>>>,
     I |-> <<>>,
     fs |-> (<<"/","c","w","d","/","m","a","i","n",".","n","k">> :> Src_template_main_nk)],
    \* 3: arity
    [argv |-> <<<<"m","a","i","n",".","n","k">>>>,
     I |-> <<>>,
     fs |-> (<<"/","c","w","d","/","m","a","i","n",".","n","k">> :> Src_arity_main_nk)],
    \* 4: spaces
    [argv |-> <<<<"m","a","i","n",".","n","k">>>>,
     I |-> <<>>,
     fs |-> (<<"/","c","w","d","/","m","a","i","n",".","n","k">> :> Src_spaces_main_nk)],
    \* 5: recall
    [argv |-> <<<<"m","a","i","n",".","n","k">>>>,
     I |-> <<>>,
     fs |-> (<<"/","c","w","d","/","m","a","i","n",".","n","k">> :> Src_recall_main_nk)],
    \* 6: grow
    [argv |-> <<<<"m","a","i","n",".","n","k">>>>,
     I |-> <<>>,
     fs |-> (<<"/","c","w","d","/","m","a","i","n",".","n","k">> :> Src_grow_main_nk)],
    \* 7: slice
    [argv |-> <<<<"m","a","i","n",".","n","k">>>>,
     I |-> <<>>,
     fs |-> (<<"/","c","w","d","/","m","a","i","n",".","n","k">> :> Src_slice_main_nk)],
    \* 8: between
    [argv |-> <<<<"m","a","i","n",".","n","k">>>>,
     I |-> <<>>,
     fs |-> (<<"/","c","w","d","/","m","a","i","n",".","n","k">> :> Src_between_main_nk)],
    \* 9: slices
    [argv |-> <<<<"m","a","i","n",".","n","k">>>>,
     I |-> <<>>,
     fs |-> (<<"/","c","w","d","/","m","a","i","n",".","n","k">> :> Src_slices_main_nk)],
    \* 10: assign
    [argv |-> <<<<"m","a","i","n",".","n","k">>>>,
     I |-> <<>>,
     fs |-> (<<"/","c","w","d","/","m","a","i","n",".","n","k">> :> Src_assign_main_nk)],
    \* 11: blocks
    [argv |-> <<<<"m","a","i","n",".","n","k">>>>,
     I |-> <<>>,
     fs |-> (<<"/","c","w","d","/","m","a","i","n",".","n","k">> :> Src_blocks_main_nk)],
    \* 12: fn_end
    [argv |-> <<<<"m","a","i","n",".","n","k">>>>,
     I |-> <<>>,
     fs |-> (<<"/","c","w","d","/","m","a","i","n",".","n","k">> :> Src_fn_end_main_nk)],
    \* 13: lambda
    [argv |-> <<<<"m","a","i","n",".","n","k">>>>,
     I |-> <<>>,
     fs |-> (<<"/","c","w","d","/","m","a","i","n",".","n","k">> :> Src_lambda_main_nk)],
    \* 14: import
    [argv |-> <<<<"m","a","i","n",".","n","k">>>>,
     I |-> <<<<"l","i","b">>>>,
     fs |-> (<<"/","c","w","d","/","m","a","i","n",".","n","k">> :> Src_import_main_nk) @@ (<<"/","c","w","d","/","l","i","b",".","n","k">> :> Src_import_lib_nk) @@ (<<"/","c","w","d","/","l","i","b","/","u","t","i","l",".","n","k">> :> Src_import_lib_util_nk)],
    \* 15: cycle
    [argv |-> <<<<"m","a","i","n",".","n","k">>>>,
     I |-> <<>>,
     fs |-> (<<"/","c","w","d","/","m","a","i","n",".","n","k">> :> Src_cycle_main_nk) @@ (<<"/","c","w","d","/","l","i","b",".","n","k">> :> Src_cycle_lib_nk)],
    \* 16: missing
    [argv |-> <<<<"m","a","i","n",".","n","k">>>>,
     I |-> <<>>,
     fs |-> (<<"/","c","w","d","/","m","a","i","n",".","n","k">> :> Src_missing_main_nk)],
    \* 17: outside
    [argv |-> <<<<"m","a","i","n",".","n","k">>, <<"m","a","i","n",".","n","k">>>>,
     I |-> <<>>,
     fs |-> (<<"/","c","w","d","/","m","a","i","n",".","n","k">> :> Src_outside_main_nk)],
    \* 18: unresolved
    [argv |-> <<<<"m","a","i","n",".","n","k">>>>,
     I |-> <<>>,
     fs |-> (<<"/","c","w","d","/","m","a","i","n",".","n","k">> :> Src_unresolved_main_nk)],
    \* 19: inner_fn
    [argv |-> <<<<"m","a","i","n",".","n","k">>>>,
     I |-> <<>>,
     fs |-> (<<"/","c","w","d","/","m","a","i","n",".","n","k">> :> Src_inner_fn_main_nk)],
    \* 20: bracketless
    [argv |-> <<<<"m","a","i","n",".","n","k">>>>,
     I |-> <<>>,
     fs |-> (<<"/","c","w","d","/","m","a","i","n",".","n","k">> :> Src_bracketless_main_nk)],
    \* 21: never_closed
    [argv |-> <<<<"m","a","i","n",".","n","k">>>>,
     I |-> <<>>,
     fs |-> (<<"/","c","w","d","/","m","a","i","n",".","n","k">> :> Src_never_closed_main_nk)],
    \* 22: else_after_call
    [argv |-> <<<<"m","a","i","n",".","n","k">>>>,
     I |-> <<>>,
     fs |-> (<<"/","c","w","d","/","m","a","i","n",".","n","k">> :> Src_else_after_call_main_nk)],
    \* 23: twice_given
    [argv |-> <<<<"m","a","i","n",".","n","k">>, <<".","/","m","a","i","n",".","n","k">>>>,
     I |-> <<>>,
     fs |-> (<<"/","c","w","d","/","m","a","i","n",".","n","k">> :> Src_twice_given_main_nk)],
    \* 24: caps
    [argv |-> <<<<"m","a","i","n",".","n","k">>>>,
     I |-> <<>>,
     fs |-> (<<"/","c","w","d","/","m","a","i","n",".","n","k">> :> Src_caps_main_nk)],
    \* 25: pop_unknown
    [argv |-> <<<<"m","a","i","n",".","n","k">>>>,
     I |-> <<>>,
     fs |-> (<<"/","c","w","d","/","m","a","i","n",".","n","k">> :> Src_pop_unknown_main_nk)],
    \* 26: pop_twice
    [argv |-> <<<<"m","a","i","n",".","n","k">>>>,
     I |-> <<>>,
     fs |-> (<<"/","c","w","d","/","m","a","i","n",".","n","k">> :> Src_pop_twice_main_nk)],
    \* 27: pop_order
    [argv |-> <<<<"m","a","i","n",".","n","k">>>>,
     I |-> <<>>,
     fs |-> (<<"/","c","w","d","/","m","a","i","n",".","n","k">> :> Src_pop_order_main_nk)],
    \* 28: push_reuse
    [argv |-> <<<<"m","a","i","n",".","n","k">>>>,
     I |-> <<>>,
     fs |-> (<<"/","c","w","d","/","m","a","i","n",".","n","k">> :> Src_push_reuse_main_nk)],
    \* 29: unpopped
    [argv |-> <<<<"m","a","i","n",".","n","k">>>>,
     I |-> <<>>,
     fs |-> (<<"/","c","w","d","/","m","a","i","n",".","n","k">> :> Src_unpopped_main_nk)],
    \* 30: repush
    [argv |-> <<<<"m","a","i","n",".","n","k">>>>,
     I |-> <<>>,
     fs |-> (<<"/","c","w","d","/","m","a","i","n",".","n","k">> :> Src_repush_main_nk)],
    \* 31: push_in_if
    [argv |-> <<<<"m","a","i","n",".","n","k">>>>,
     I |-> <<>>,
     fs |-> (<<"/","c","w","d","/","m","a","i","n",".","n","k">> :> Src_push_in_if_main_nk)],
    \* 32: pop_in_while
    [argv |-> <<<<"m","a","i","n",".","n","k">>>>,
     I |-> <<>>,
     fs |-> (<<"/","c","w","d","/","m","a","i","n",".","n","k">> :> Src_pop_in_while_main_nk)],
    \* 33: commit_args
    [argv |-> <<<<"m","a","i","n",".","n","k">>>>,
     I |-> <<>>,
     fs |-> (<<"/","c","w","d","/","m","a","i","n",".","n","k">> :> Src_commit_args_main_nk)],
    \* 34: commit_lambda
    [argv |-> <<<<"m","a","i","n",".","n","k">>>>,
     I |-> <<>>,
     fs |-> (<<"/","c","w","d","/","m","a","i","n",".","n","k">> :> Src_commit_lambda_main_nk)],
    \* 35: commit_plain
    [argv |-> <<<<"m","a","i","n",".","n","k">>>>,
     I |-> <<>>,
     fs |-> (<<"/","c","w","d","/","m","a","i","n",".","n","k">> :> Src_commit_plain_main_nk)],
    \* 36: push_plain
    [argv |-> <<<<"m","a","i","n",".","n","k">>>>,
     I |-> <<>>,
     fs |-> (<<"/","c","w","d","/","m","a","i","n",".","n","k">> :> Src_push_plain_main_nk)],
    \* 37: push_undefined
    [argv |-> <<<<"m","a","i","n",".","n","k">>>>,
     I |-> <<>>,
     fs |-> (<<"/","c","w","d","/","m","a","i","n",".","n","k">> :> Src_push_undefined_main_nk)],
    \* 38: given_imported
    [argv |-> <<<<"m","a","i","n",".","n","k">>, <<"l","i","b",".","n","k">>>>,
     I |-> <<>>,
     fs |-> (<<"/","c","w","d","/","m","a","i","n",".","n","k">> :> Src_given_imported_main_nk) @@ (<<"/","c","w","d","/","l","i","b",".","n","k">> :> Src_given_imported_lib_nk)],
    \* 39: fn_else
    [argv |-> <<<<"m","a","i","n",".","n","k">>>>,
     I |-> <<>>,
     fs |-> (<<"/","c","w","d","/","m","a","i","n",".","n","k">> :> Src_fn_else_main_nk)],
    \* 40: lambda_name
    [argv |-> <<<<"m","a","i","n",".","n","k">>>>,
     I |-> <<>>,
     fs |-> (<<"/","c","w","d","/","m","a","i","n",".","n","k">> :> Src_lambda_name_main_nk)],
    \* 41: lambda_name_after
    [argv |-> <<<<"m","a","i","n",".","n","k">>>>,
     I |-> <<>>,
     fs |-> (<<"/","c","w","d","/","m","a","i","n",".","n","k">> :> Src_lambda_name_after_main_nk)],
    \* 42: lambda_plain
    [argv |-> <<<<"m","a","i","n",".","n","k">>>>,
     I |-> <<>>,
     fs |-> (<<"/","c","w","d","/","m","a","i","n",".","n","k">> :> Src_lambda_plain_main_nk)],
    \* 43: lambda_both
    [argv |-> <<<<"m","a","i","n",".","n","k">>>>,
     I |-> <<>>,
     fs |-> (<<"/","c","w","d","/","m","a","i","n",".","n","k">> :> Src_lambda_both_main_nk)],
    \* 44: nested_lambda
    [argv |-> <<<<"m","a","i","n",".","n","k">>>>,
     I |-> <<>>,
     fs |-> (<<"/","c","w","d","/","m","a","i","n",".","n","k">> :> Src_nested_lambda_main_nk)],
    \* 45: recall_args
    [argv |-> <<<<"m","a","i","n",".","n","k">>>>,
     I |-> <<>>,
     fs |-> (<<"/","c","w","d","/","m","a","i","n",".","n","k">> :> Src_recall_args_main_nk)],
    \* 46: chain
    [argv |-> <<<<"m","a","i","n",".","n","k">>>>,
     I |-> <<>>,
     fs |-> (<<"/","c","w","d","/","m","a","i","n",".","n","k">> :> Src_chain_main_nk)],
    \* 47: forward
    [argv |-> <<<<"m","a","i","n",".","n","k">>>>,
     I |-> <<>>,
     fs |-> (<<"/","c","w","d","/","m","a","i","n",".","n","k">> :> Src_forward_main_nk)],
    \* 48: lambda_taken
    [argv |-> <<<<"m","a","i","n",".","n","k">>>>,
     I |-> <<>>,
     fs |-> (<<"/","c","w","d","/","m","a","i","n",".","n","k">> :> Src_lambda_taken_main_nk)],
    \* 49: empty_else
    [argv |-> <<<<"m","a","i","n",".","n","k">>>>,
     I |-> <<>>,
     fs |-> (<<"/","c","w","d","/","m","a","i","n",".","n","k">> :> Src_empty_else_main_nk)],
    \* 50: import_both
    [argv |-> <<<<"m","a","i","n",".","n","k">>>>,
     I |-> <<<<"l","i","b">>>>,
     fs |-> (<<"/","c","w","d","/","m","a","i","n",".","n","k">> :> Src_import_both_main_nk) @@ (<<"/","c","w","d","/","u","t","i","l",".","n","k">> :> Src_import_both_util_nk) @@ (<<"/","c","w","d","/","l","i","b","/","u","t","i","l",".","n","k">> :> Src_import_both_lib_util_nk)],
    \* 51: mutual
    [argv |-> <<<<"m","a","i","n",".","n","k">>>>,
     I |-> <<>>,
     fs |-> (<<"/","c","w","d","/","m","a","i","n",".","n","k">> :> Src_mutual_main_nk)],
    \* 52: late_bound
    [argv |-> <<<<"m","a","i","n",".","n","k">>>>,
     I |-> <<>>,
     fs |-> (<<"/","c","w","d","/","m","a","i","n",".","n","k">> :> Src_late_bound_main_nk)],
    \* 53: push_later
    [argv |-> <<<<"m","a","i","n",".","n","k">>>>,
     I |-> <<>>,
     fs |-> (<<"/","c","w","d","/","m","a","i","n",".","n","k">> :> Src_push_later_main_nk)],
    \* 54: upper_name
    [argv |-> <<<<"m","a","i","n",".","n","k">>>>,
     I |-> <<>>,
     fs |-> (<<"/","c","w","d","/","m","a","i","n",".","n","k">> :> Src_upper_name_main_nk)],
    \* 55: upper_long
    [argv |-> <<<<"m","a","i","n",".","n","k">>>>,
     I |-> <<>>,
     fs |-> (<<"/","c","w","d","/","m","a","i","n",".","n","k">> :> Src_upper_long_main_nk)],
    \* 56: punct_values
    [argv |-> <<<<"m","a","i","n",".","n","k">>>>,
     I |-> <<>>,
     fs |-> (<<"/","c","w","d","/","m","a","i","n",".","n","k">> :> Src_punct_values_main_nk)],
    \* 57: inc_dot
    [argv |-> <<<<"m","a","i","n",".","n","k">>>>,
     I |-> <<<<".","/","l","i","b">>>>,
     fs |-> (<<"/","c","w","d","/","m","a","i","n",".","n","k">> :> Src_inc_dot_main_nk) @@ (<<"/","c","w","d","/","l","i","b","/","u","t","i","l",".","n","k">> :> Src_inc_dot_lib_util_nk)],
    \* 58: inc_slash
    [argv |-> <<<<"m","a","i","n",".","n","k">>>>,
     I |-> <<<<"l","i","b","/">>>>,
     fs |-> (<<"/","c","w","d","/","m","a","i","n",".","n","k">> :> Src_inc_slash_main_nk) @@ (<<"/","c","w","d","/","l","i","b","/","u","t","i","l",".","n","k">> :> Src_inc_slash_lib_util_nk)],
    \* 59: import_sub
    [argv |-> <<<<"m","a","i","n",".","n","k">>>>,
     I |-> <<>>,
     fs |-> (<<"/","c","w","d","/","m","a","i","n",".","n","k">> :> Src_import_sub_main_nk) @@ (<<"/","c","w","d","/","l","i","b","/","u","t","i","l",".","n","k">> :> Src_import_sub_lib_util_nk) @@ (<<"/","c","w","d","/","s","i","d","e",".","n","k">> :> Src_import_sub_side_nk)],
    \* 60: import_dir
    [argv |-> <<<<"m","a","i","n",".","n","k">>>>,
     I |-> <<>>,
     fs |-> (<<"/","c","w","d","/","m","a","i","n",".","n","k">> :> Src_import_dir_main_nk) @@ (<<"/","c","w","d","/","l","i","b","/","u","t","i","l",".","n","k">> :> Src_import_dir_lib_util_nk)],
    \* 61: import_empty
    [argv |-> <<<<"m","a","i","n",".","n","k">>>>,
     I |-> <<>>,
     fs |-> (<<"/","c","w","d","/","m","a","i","n",".","n","k">> :> Src_import_empty_main_nk)],
    \* 62: argv_dir
    [argv |-> <<<<"l","i","b">>>>,
     I |-> <<>>,
     fs |-> (<<"/","c","w","d","/","m","a","i","n",".","n","k">> :> Src_argv_dir_main_nk) @@ (<<"/","c","w","d","/","l","i","b","/","u","t","i","l",".","n","k">> :> Src_argv_dir_lib_util_nk)],
    \* 63: argv_spelled
    [argv |-> <<<<"n","o","d","i","r","/",".",".","/","m","a","i","n",".","n","k">>, <<".","/","m","a","i","n",".","n","k","/">>>>,
     I |-> <<>>,
     fs |-> (<<"/","c","w","d","/","m","a","i","n",".","n","k">> :> Src_argv_spelled_main_nk)],
    \* 64: for_big
    [argv |-> <<<<"m","a","i","n",".","n","k">>>>,
     I |-> <<>>,
     fs |-> (<<"/","c","w","d","/","m","a","i","n",".","n","k">> :> Src_for_big_main_nk)],
    \* 65: for_hex
    [argv |-> <<<<"m","a","i","n",".","n","k">>>>,
     I |-> <<>>,
     fs |-> (<<"/","c","w","d","/","m","a","i","n",".","n","k">> :> Src_for_hex_main_nk)],
    \* 66: for_under
    [argv |-> <<<<"m","a","i","n",".","n","k">>>>,
     I |-> <<>>,
     fs |-> (<<"/","c","w","d","/","m","a","i","n",".","n","k">> :> Src_for_under_main_nk)],
    \* 67: for_arabic
    [argv |-> <<<<"m","a","i","n",".","n","k">>>>,
     I |-> <<>>,
     fs |-> (<<"/","c","w","d","/","m","a","i","n",".","n","k">> :> Src_for_arabic_main_nk)],
    \* 68: for_zeros
    [argv |-> <<<<"m","a","i","n",".","n","k">>>>,
     I |-> <<>>,
     fs |-> (<<"/","c","w","d","/","m","a","i","n",".","n","k">> :> Src_for_zeros_main_nk)],
    \* 69: for_huge
    [argv |-> <<<<"m","a","i","n",".","n","k">>>>,
     I |-> <<>>,
     fs |-> (<<"/","c","w","d","/","m","a","i","n",".","n","k">> :> Src_for_huge_main_nk)],
    \* 70: eof_return
    [argv |-> <<<<"m","a","i","n",".","n","k">>>>,
     I |-> <<>>,
     fs |-> (<<"/","c","w","d","/","m","a","i","n",".","n","k">> :> Src_eof_return_main_nk)],
    \* 71: eof_slice
    [argv |-> <<<<"m","a","i","n",".","n","k">>>>,
     I |-> <<>>,
     fs |-> (<<"/","c","w","d","/","m","a","i","n",".","n","k">> :> Src_eof_slice_main_nk)],
    \* 72: lambda_replain
    [argv |-> <<<<"m","a","i","n",".","n","k">>>>,
     I |-> <<>>,
     fs |-> (<<"/","c","w","d","/","m","a","i","n",".","n","k">> :> Src_lambda_replain_main_nk)],
    \* 73: lambda_first_plain
    [argv |-> <<<<"m","a","i","n",".","n","k">>>>,
     I |-> <<>>,
     fs |-> (<<"/","c","w","d","/","m","a","i","n",".","n","k">> :> Src_lambda_first_plain_main_nk)],
    \* 74: lambda_user
    [argv |-> <<<<"m","a","i","n",".","n","k">>>>,
     I |-> <<>>,
     fs |-> (<<"/","c","w","d","/","m","a","i","n",".","n","k">> :> Src_lambda_user_main_nk)],
    \* 75: out_dir
    [argv |-> <<<<"o","u","t",".","k","l","/","m","a","i","n",".","n","k">>>>,
     I |-> <<>>,
     fs |-> (<<"/","c","w","d","/","m","a","i","n",".","n","k">> :> Src_out_dir_main_nk) @@ (<<"/","c","w","d","/","o","u","t",".","k","l","/","m","a","i","n",".","n","k">> :> Src_out_dir_out_kl_main_nk)]
>>

Files(input) == Corpus[input].fs


(***************************************************************************)
(* The state.  args and hashseed are fixed by Init.  The compiler globals  *)
(* keep their names.  stack holds the activations of the running process,  *)
(* the innermost last: the main program's loop, compile_source_file        *)
(* activations and compile_fn activations, each with its local variables.  *)
(*                                                                         *)
(* twin is a second process, started when the first has exited, on the     *)
(* same files with the same command line except for one thing: either its  *)
(* hash seed or its dialect.  Its state is a record of the same fields.    *)
(***************************************************************************)
VARIABLES
    args,                   \* the parsed command line and the file system it runs in
    hashseed,               \* this process's hash seed
    source_file_compiled,   \* realpath -> bool
    defined_fn_prototypes,  \* fn name -> FnPrototypeAst
    instaciated_fns,        \* comp_name -> FnInstanceAst
    output_source,          \* the output buffer
    stack,                  \* the call stack
    status,                 \* "running", "ok" (exit 0), "failed" (CompileError), "crashed"
    error,                  \* <<>> or <<[message, src_file, line_index]>>
    printed,                \* the warnings printed so far
    out_file,               \* the contents written to the output file, in order
    calls,                  \* history: the key, the emitted name and the numbers of
                            \* template values and parameters of every compile_fn call
    finished,               \* history: comp_name -> the pushes compiled in its body,
                            \* for every compile_fn activation that has returned
    lambdas,                \* history: the names of the prototypes parse_fn created
                            \* for a lambda_owner
    twin                    \* the second process

vars == <<args, hashseed, source_file_compiled, defined_fn_prototypes, instaciated_fns,
          output_source, stack, status, error, printed, out_file, calls, finished,
          lambdas, twin>>

\* The state as one value, for the operators that compute a step
Cur ==
    [args |-> args, hashseed |-> hashseed, source_file_compiled |-> source_file_compiled,
     defined_fn_prototypes |-> defined_fn_prototypes, instaciated_fns |-> instaciated_fns,
     output_source |-> output_source, stack |-> stack, status |-> status,
     error |-> error, printed |-> printed, out_file |-> out_file, calls |-> calls,
     finished |-> finished, lambdas |-> lambdas]

\* The process that is running: the second starts when the first has exited
Active == IF status = "running" THEN Cur ELSE twin

\* The first process takes a step to n
FirstBecomes(n) ==
    /\ args' = n.args
    /\ hashseed' = n.hashseed
    /\ source_file_compiled' = n.source_file_compiled
    /\ defined_fn_prototypes' = n.defined_fn_prototypes
    /\ instaciated_fns' = n.instaciated_fns
    /\ output_source' = n.output_source
    /\ stack' = n.stack
    /\ status' = n.status
    /\ error' = n.error
    /\ printed' = n.printed
    /\ out_file' = n.out_file
    /\ calls' = n.calls
    /\ finished' = n.finished
    /\ lambdas' = n.lambdas
    /\ twin' = twin

\* The running process takes a step to n
Becomes(n) ==
    IF status = "running" THEN FirstBecomes(n)
    ELSE /\ twin' = n
         /\ UNCHANGED <<args, hashseed, source_file_compiled, defined_fn_prototypes,
                        instaciated_fns, output_source, stack, status, error, printed,
                        out_file, calls, finished, lambdas>>

Top(s) == s.stack[Len(s.stack)]

SetTop(s, f) == [s EXCEPT !.stack[Len(s.stack)] = f]

Pop(s) == [s EXCEPT !.stack = SubSeq(s.stack, 1, Len(s.stack) - 1)]

\* f with the entries of g added or replaced (dict assignment)
Put(f, k, v) == (k :> v) @@ f

\* A faulty variant of the error exit: the buffer compiled so far is written
\* to the output file on the way out
RaiseWritten(s, message, src_file, line_index) ==
    [s EXCEPT !.status = "failed",
              !.out_file = Append(@, s.output_source),
              !.error = <<[message |-> message, src_file |-> src_file,
                           line_index |-> line_index]>>]

\* raise CompileError(message, src_file, line_index, src), caught by the main
\* program: error_print, then exit(-1)
Raise(s, message, src_file, line_index) ==
    [s EXCEPT !.status = "failed",
              !.error = <<[message |-> message, src_file |-> src_file,
                           line_index |-> line_index]>>]

\* An exception the main program does not catch: a traceback and exit code 1
Crash(s, exception) ==
    [s EXCEPT !.status = "crashed",
              !.error = <<[message |-> exception, src_file |-> <<>>,
                           line_index |-> -1]>>]

\* The process's exit code
ExitCode(st) == IF st = "ok" THEN 0 ELSE IF st = "failed" THEN -1 ELSE 1

\* A faulty variant of warn_print: every level but -W none raises
warn_printRaising(s, src_file, warning_message, line_index) ==
    IF s.args.W = 0 THEN s ELSE Raise(s, warning_message, src_file, line_index)

\* warn_print(src_file, warning_message, line_index, src)
warn_print(s, src_file, warning_message, line_index) ==
    IF s.args.W = 2 THEN Raise(s, warning_message, src_file, line_index)
    ELSE IF s.args.W = 0 THEN s
    ELSE [s EXCEPT !.printed = Append(@, [message |-> warning_message,
                                          src_file |-> src_file,
                                          line_index |-> line_index])]

\* The lines of the source file a frame or prototype was read from
SrcOf(s, src_file) == Files(s.args.input)[realpath(src_file)]

(***************************************************************************)
(* compile_fn: entry, the return to the caller, and the end of a body.     *)
(***************************************************************************)

\* The interpreter's recursion limit, counted in activations of
\* compile_source_file and compile_fn (sys.getrecursionlimit() is 1000
\* Python frames; the model's inputs nest far less unless they diverge)
MaxRecursion == 7

CallLoc(caller, callee, tv, iv, ia, dest, src_file, line) ==
    [caller_fn_name |-> caller, callee_fn_name |-> callee,
     template_arg_values |-> tv, inherited_template_arg_values |-> iv,
     inherited_template_args |-> ia, callee_commit_dest_fn |-> dest,
     src_file |-> src_file, caller_line_index |-> line]

\* The deduplication key of a compile_fn call: the prototype, the
\* continuation's emitted name (<<>> for none) and the template values
\* followed by the inherited values
KeyOf(fn_name, call_loc) ==
    [prototype |-> fn_name,
     continuation |-> IF call_loc.callee_commit_dest_fn = <<>> THEN <<>>
                      ELSE <<call_loc.callee_commit_dest_fn[1].comp_name>>,
     values |-> call_loc.template_arg_values \o call_loc.inherited_template_arg_values]

\* The name under which compile_fn looks the instance up and stores it
InstanceName(g, seed, fn_proto, call_loc) ==
    IF fn_proto.top_level_implicit_usage THEN fn_proto.name
    ELSE gen_comp_name(g, seed, fn_proto.name, call_loc, 0)

FnInstanceAst(fn_proto, comp_name, call_loc) ==
    [name |-> fn_proto.name, comp_name |-> comp_name,
     owning_lambdas |-> <<>>, compiled_segments |-> <<>>,
     commit_fn |-> call_loc.callee_commit_dest_fn,
     instance_template_args |-> call_loc.template_arg_values,
     inherited_template_arg_values |-> call_loc.inherited_template_arg_values,
     inherited_template_args |-> call_loc.inherited_template_args]

\* The template instantiation loop: [arg] becomes the value, argument by argument
RECURSIVE Instantiate(_, _, _)
Instantiate(fn_src, to_replace, to_insert) ==
    IF to_replace = <<>> THEN fn_src
    ELSE Instantiate(Replace(fn_src, <<"[">> \o Head(to_replace) \o <<"]">>, Head(to_insert)),
                     Tail(to_replace), Tail(to_insert))

\* Where the scan for the body's '{' starts: the instantiation loop reuses
\* the scan index i as its loop variable and leaves the last index in it
BodyScanStart(to_replace) == IF to_replace = <<>> THEN 0 ELSE Len(to_replace) - 1

\* One line of a segment at a depth
Line(depth, text) == Times(<<" "," "," ">>, depth) \o text \o <<NL>>

\* A faulty variant of the segment store: a segment that has no slot yet is
\* put in front of the list
SaveSegmentFront(segments, index, seg) ==
    IF Len(segments) > index THEN [segments EXCEPT ![index + 1] = seg]
    ELSE <<seg>> \o segments

\* list: compiled_segments[index] = seg if it exists, else append
SaveSegment(segments, index, seg) ==
    IF Len(segments) > index THEN [segments EXCEPT ![index + 1] = seg]
    ELSE Append(segments, seg)

Reverse(l) == [k \in 1..Len(l) |-> l[Len(l) - k + 1]]

\* list.remove(x), when x is in l
RECURSIVE Remove(_, _)
Remove(l, x) == IF Head(l) = x THEN Tail(l) ELSE <<Head(l)>> \o Remove(Tail(l), x)

\* What the caller does with the instance compile_fn returned, whose name
\* is comp_name: the rest of the handler that made the call.  The caller is
\* on top of the stack and its wait field tells which handler it is in.
Resume(s, comp_name) ==
    LET f == Top(s)
        w == f.wait[1]
        done(g) == SetTop(s, [g EXCEPT !.wait = <<>>, !.acc = <<>>, !.i = @ + 1])
    IN  CASE w.kind = "toplevel" ->
               SetTop(s, [f EXCEPT !.wait = <<>>, !.i = @ + w.skip + 1])
          [] w.kind = "call" ->
               done([f EXCEPT !.seg = @ \o Line(f.depth, comp_name)])
          [] w.kind = "recall" ->
               LET s1 == IF f.depth = 1
                         THEN warn_print(s, s.defined_fn_prototypes[f.proto].src_file,
                                         "recall most likely causes an infinite loop",
                                         f.line_index)
                         ELSE s
               IN  IF s1.status # "running" THEN s1
                   ELSE SetTop(s1, [f EXCEPT !.wait = <<>>, !.acc = <<>>, !.i = @ + 1,
                                             !.seg = @ \o Line(f.depth, comp_name)])
          [] w.kind = "push" ->
               LET seg == f.seg \o Line(f.depth, comp_name)
                   fn == s.instaciated_fns[f.comp]
                   s1 == [s EXCEPT !.instaciated_fns[f.comp].compiled_segments =
                                       SaveSegment(fn.compiled_segments, w.old_segment_index, seg)]
               IN  SetTop(s1, [f EXCEPT !.wait = <<>>, !.acc = <<>>, !.i = @ + 1,
                                        !.slice_stack_scopes = <<w.slice_name>> \o @,
                                        !.poped_stack_slices =
                                            IF \E k \in 1..Len(@) : @[k] = w.slice_name
                                            THEN Remove(@, w.slice_name) ELSE @,
                                        !.seg = w.comp_name \o <<NL>>,
                                        !.depth = 1])
          [] w.kind = "lambda" ->
               LET s1 == [s EXCEPT !.instaciated_fns[f.comp].owning_lambdas =
                                       Append(@, comp_name)]
               IN  SetTop(s1, [f EXCEPT !.wait = <<>>, !.acc = <<>>, !.i = @ + 1,
                                        !.seg = @ \o Line(f.depth, comp_name),
                                        !.block_clousure_depth = @ - 1])

\* compile_fn(fn_proto, call_loc, args), called by the activation on top of
\* the stack: either the cached instance is returned at once and the caller
\* goes on, or a new activation starts scanning the body.
compile_fn(s, fn_proto, call_loc) ==
    LET comp_name == InstanceName(s.args.g, s.hashseed, fn_proto, call_loc)
        s1 == [s EXCEPT !.calls = @ \cup {[key |-> KeyOf(fn_proto.name, call_loc),
                                           comp_name |-> comp_name,
                                           given |-> Len(call_loc.template_arg_values),
                                           params |-> Len(fn_proto.template_args)]}]
        s2 == [s1 EXCEPT !.instaciated_fns =
                            Put(@, comp_name, FnInstanceAst(fn_proto, comp_name, call_loc))]
        to_replace == fn_proto.template_args \o call_loc.inherited_template_args
        to_insert == call_loc.template_arg_values \o call_loc.inherited_template_arg_values
        fn_src == Instantiate(fn_proto.fn_src, to_replace, to_insert)
        open == Find(fn_src, <<"{">>, BodyScanStart(to_replace))
    IN  IF Len(s.stack) >= MaxRecursion THEN Crash(s, "RecursionError")
        ELSE IF comp_name \in DOMAIN s.instaciated_fns THEN Resume(s1, comp_name)
        ELSE IF Len(fn_proto.template_args) # Len(call_loc.template_arg_values)
        THEN Raise(s2, "incorrect number of template args", call_loc.src_file,
                   call_loc.caller_line_index)
        ELSE IF open < 0 THEN Crash(s2, "IndexError")
        ELSE [s2 EXCEPT !.stack = Append(@,
                 [kind |-> "fn", proto |-> fn_proto.name, call_loc |-> call_loc,
                  comp |-> comp_name, fn_src |-> fn_src,
                  i |-> open + 1, line_index |-> fn_proto.line_of_definition,
                  acc |-> <<>>, seg |-> comp_name \o <<NL>>, depth |-> 1,
                  cur_idx |-> 0, next_idx |-> 0, comp_segment_stack |-> <<>>,
                  block_clousure_depth |-> 1, slice_stack_scopes |-> <<>>,
                  poped_stack_slices |-> <<>>, is_last_end_if |-> <<>>,
                  wait |-> <<>>])]

\* A faulty variant of the assembly: the segments are appended in the order
\* of the list, without the reversal
ReturnUnreversed(s) ==
    LET f == Top(s)
        segs == s.instaciated_fns[f.comp].compiled_segments
        s1 == [s EXCEPT !.output_source = @ \o ToUpper(Join(segs)),
                        !.finished = Put(@, f.comp, f.next_idx)]
    IN  Resume(Pop(s1), f.comp)

\* A faulty variant of the assembly: the segments are put in front of the
\* output, so that a caller stands before the callees its body referenced
ReturnPrepended(s) ==
    LET f == Top(s)
        segs == Reverse(s.instaciated_fns[f.comp].compiled_segments)
        s1 == [s EXCEPT !.instaciated_fns[f.comp].compiled_segments = segs,
                        !.output_source = ToUpper(Join(segs)) \o @,
                        !.finished = Put(@, f.comp, f.next_idx)]
    IN  Resume(Pop(s1), f.comp)

\* The end of compile_fn: the instance's segments are reversed and appended
\* to the output, upper-cased; the activation returns to its caller
Return(s) ==
    LET f == Top(s)
        segs == Reverse(s.instaciated_fns[f.comp].compiled_segments)
        s1 == [s EXCEPT !.instaciated_fns[f.comp].compiled_segments = segs,
                        !.output_source = @ \o ToUpper(Join(segs)),
                        !.finished = Put(@, f.comp, f.next_idx)]
    IN  Resume(Pop(s1), f.comp)

(***************************************************************************)
(* compile_fn: the scanner.  Each step of the model scans the body up to   *)
(* the next character that is handled by a branch of its own ('[', '{',    *)
(* '}', ';' or the end of the text) and runs that branch to its end.       *)
(***************************************************************************)

\* acc after the scan loop has passed over text, which holds blanks and
\* plain characters: a blank adds one space unless acc is empty or ends
\* with a space already, so a blank stays (as a space) exactly when the
\* character before it is not a blank.  nl tells whether a newline adds
\* its space in any case (the lambda branch's loop).
Collapse(acc, text, nl) ==
    LET t == acc \o text
        keep == {k \in 1..Len(t) :
                    \/ k <= Len(acc)
                    \/ t[k] \notin Blank
                    \/ (nl /\ t[k] = NL)
                    \/ (k > 1 /\ t[k - 1] \notin Blank)}
    IN  [n \in 1..Cardinality(keep) |->
            LET c == t[Nth(keep, n)] IN IF c \in Blank /\ Nth(keep, n) > Len(acc) THEN " " ELSE c]

\* The scan loop over blanks and plain characters from 0-based position i, up
\* to the next character with a branch of its own
ScanChars(fn_src, i, acc, line_index) ==
    LET stops == {k \in i..(Len(fn_src) - 1) : fn_src[k + 1] \in {"[", "{", "}", ";"}}
        stop == IF stops = {} THEN Len(fn_src) ELSE Min(stops)
        text == SubSeq(fn_src, i + 1, stop)
    IN  [c |-> IF i >= Len(fn_src) \/ stops = {} THEN "EOF" ELSE fn_src[stop + 1],
         i |-> IF i >= Len(fn_src) THEN i ELSE stop,
         acc |-> Collapse(acc, text, FALSE),
         line_index |-> line_index + Cardinality({k \in 1..Len(text) : text[k] = NL})]

\* The innermost compile_fn activation, advanced to the next handled character
Scanned(s) ==
    LET f == Top(s)
        sc == ScanChars(f.fn_src, f.i, f.acc, f.line_index)
    IN  [f EXCEPT !.i = sc.i, !.acc = sc.acc, !.line_index = sc.line_index]

ProtoOf(s, f) == s.defined_fn_prototypes[f.proto]

\* raise CompileError(message, fn_proto.src_file, line_index, fn_proto.src)
RaiseAt(s, f, message, line_index) == Raise(s, message, ProtoOf(s, f).src_file, line_index)

Cg(s) == builtin_cg_keywords_of(s.args.dialect)

\* Number of newlines in fn_src between 0-based positions a (included) and b (excluded)
Newlines(fn_src, a, b) == Cardinality({k \in (a + 1)..b : k <= Len(fn_src) /\ fn_src[k] = NL})

\* '[': an unresolved template target is warned about and skipped
DoUnresolved(s) ==
    LET f == Scanned(s)
        s1 == warn_print(s, ProtoOf(s, f).src_file, "unresolved template target", f.line_index)
        close == Find(f.fn_src, <<"]">>, f.i)
    IN  IF s1.status # "running" THEN s1
        ELSE IF close < 0
        THEN RaiseAt(s1, f, "unresolved template target never closed", f.line_index)
        ELSE SetTop(s1, [f EXCEPT !.i = close + 1,
                                  !.line_index = @ + Newlines(f.fn_src, f.i, close)])

\* '{' after an accumulated text with '=': the unfinished slice assignment
DoBlockAssign(s) ==
    LET f == Scanned(s)
    IN  SetTop(s, [f EXCEPT !.block_clousure_depth = @ + 1, !.acc = <<>>, !.i = @ + 1])

\* The common shape of the if, while and for headers: the header line is
\* emitted, is_last_end_if of the depth is set and the depth grows
OpenBlock(s, f, header, is_if) ==
    SetTop(s, [f EXCEPT !.block_clousure_depth = @ + 1, !.acc = <<>>, !.i = @ + 1,
                        !.seg = @ \o Line(f.depth, header),
                        !.is_last_end_if = Put(@, f.depth, is_if),
                        !.depth = @ + 1])

\* '{' after "if "
DoBlockIf(s) ==
    LET f == Scanned(s)
        acc == Drop(f.acc, 3)
        cond == parse_contition(Cg(s), acc)
    IN  IF cond.err # "" THEN RaiseAt(s, f, cond.err, f.line_index)
        ELSE IF Strip(Drop(acc, cond.size)) # <<>>
        THEN RaiseAt(s, f, "expected a '{' after an if statement", f.line_index)
        ELSE OpenBlock(s, f, Cg(s).if_ \o <<" ">> \o cond.text, TRUE)

\* The test of an else: the depth's last block was an if and the segment
\* ends with the END line
ElseAllowed(cg, f) ==
    /\ f.depth \in DOMAIN f.is_last_end_if
    /\ f.is_last_end_if[f.depth]
    /\ Len(f.seg) > Len(cg.end) + 1
    /\ TakeLast(f.seg, Len(cg.end) + 1) = cg.end \o <<NL>>

\* '{' after "else"
DoBlockElse(s) ==
    LET f == Scanned(s)
        acc == Drop(f.acc, 4)
    IN  IF ~ElseAllowed(Cg(s), f)
        THEN RaiseAt(s, f, "else statements can be only defined after an if", f.line_index)
        ELSE IF Strip(acc) # <<>>
        THEN RaiseAt(s, f, "expected a '{' after an else statement", f.line_index)
        ELSE SetTop(s, [f EXCEPT !.block_clousure_depth = @ + 1, !.acc = <<>>, !.i = @ + 1,
                                 !.seg = DropLast(@, Len(Cg(s).end) + 1 + Len(Times(<<" "," "," ">>, f.depth))),
                                 !.is_last_end_if = Put(@, f.depth, FALSE),
                                 !.depth = @ + 1])

\* '{' after "while "
DoBlockWhile(s) ==
    LET f == Scanned(s)
        acc == Drop(f.acc, 6)
        cond == parse_contition(Cg(s), acc)
    IN  IF cond.err # "" THEN RaiseAt(s, f, cond.err, f.line_index)
        ELSE IF Strip(Drop(acc, cond.size)) # <<>>
        THEN RaiseAt(s, f, "expected a '{' after a while statement", f.line_index)
        ELSE OpenBlock(s, f, Cg(s).while \o <<" ">> \o cond.text, FALSE)

\* The code points of the characters that are the decimal digit 0 of some
\* script; the nine code points after each are its digits 1 to 9
DecimalZeros == {
    48, 1632, 1776, 1984, 2406, 2534, 2662, 2790, 2918, 3046,
    3174, 3302, 3430, 3558, 3664, 3792, 3872, 4160, 4240, 6112,
    6160, 6470, 6608, 6784, 6800, 6992, 7088, 7232, 7248, 42528,
    43216, 43264, 43472, 43504, 43600, 44016, 65296, 66720, 68912, 69734,
    69872, 69942, 70096, 70384, 70736, 70864, 71248, 71360, 71472, 71904,
    72016, 72784, 73040, 73120, 92768, 92864, 93008, 120782, 120792, 120802,
    120812, 120822, 123200, 123632, 125264, 130032 }

\* sys.get_int_max_str_digits(): the greatest number of digits that int()
\* reads in a base that is no power of two and that str() writes
int_max_str_digits == 4300

\* An integer is kept as its decimal digits, the least significant first and
\* none for 0.  The digits of n * base + carry, for the digits n:
RECURSIVE MulAdd(_, _, _)
MulAdd(n, base, carry) ==
    IF n = <<>>
    THEN IF carry = 0 THEN <<>> ELSE <<carry % 10>> \o MulAdd(<<>>, base, carry \div 10)
    ELSE <<(n[1] * base + carry) % 10>> \o MulAdd(Tail(n), base, (n[1] * base + carry) \div 10)

\* The digits of the integer that the digit values ds, the most significant
\* first, write in base, after the digits n
RECURSIVE IntDigits(_, _, _)
IntDigits(ds, base, n) ==
    IF ds = <<>> THEN n ELSE IntDigits(Tail(ds), base, MulAdd(n, base, ds[1]))

\* int(text, base=0) and str(count): [ok, value]; ok is FALSE for a
\* ValueError of either, value is str(count).  int takes blanks around the
\* literal, a sign, then a decimal literal without a leading zero (or of
\* zeros only) or a literal with the prefix 0x, 0o or 0b; one underscore may
\* stand between two digits and after the prefix; a decimal digit of any
\* script counts as its ASCII digit.  int refuses a decimal literal of more
\* than int_max_str_digits digits, and str an integer of more than that
\* many decimal digits
ParseInt(text) ==
    LET \* the value of c as a digit, or -1; -2 for an underscore
        DigitOf(c) ==
            LET Value(n) ==
                    IF n = 95 THEN -2
                    ELSE IF n \in 97..122 THEN n - 87
                    ELSE IF n \in 65..90 THEN n - 55
                    ELSE IF \E z \in DecimalZeros : n \in z..(z + 9)
                    THEN n - (CHOOSE z \in DecimalZeros : n \in z..(z + 9))
                    ELSE -1
            IN  Value(Ord(c))
        \* str of the integer of digits n and sign neg
        Written(neg, n) ==
            IF n = <<>> THEN <<"0">>
            ELSE (IF neg THEN <<"-">> ELSE <<>>) \o [k \in 1..Len(n) |-> Digits[n[Len(n) + 1 - k] + 1]]
        Kept(lit, at) == [k \in 1..Cardinality(at) |-> lit[Nth(at, k)]]
        \* the literal's digits and underscores as values
        Literal(neg, prefixed, base, lit) ==
            IF /\ lit # <<>>
               /\ lit[1] # -2
               /\ lit[Len(lit)] # -2
               /\ \A k \in 1..Len(lit) : lit[k] = -2 \/ lit[k] \in 0..(base - 1)
               /\ \A k \in 1..(Len(lit) - 1) : ~(lit[k] = -2 /\ lit[k + 1] = -2)
               /\ (~prefixed /\ lit[1] = 0) => \A k \in 1..Len(lit) : lit[k] \in {0, -2}
               /\ ~prefixed => Cardinality({k \in 1..Len(lit) : lit[k] # -2}) <= int_max_str_digits
            THEN LET n == IntDigits(Kept(lit, {k \in 1..Len(lit) : lit[k] # -2}), base, <<>>)
                 IN  IF Len(n) > int_max_str_digits
                     THEN [ok |-> FALSE, value |-> <<>>]
                     ELSE [ok |-> TRUE, value |-> Written(neg, n)]
            ELSE [ok |-> FALSE, value |-> <<>>]
        \* the literal starts after the first from characters of body
        After(neg, body, prefixed, from) ==
            Literal(neg, prefixed,
                    IF ~prefixed THEN 10
                    ELSE IF body[2] \in {"x", "X"} THEN 16
                    ELSE IF body[2] \in {"o", "O"} THEN 8
                    ELSE 2,
                    [k \in 1..(Len(body) - from) |-> DigitOf(body[from + k])])
        Prefixed(neg, body, prefixed) ==
            After(neg, body, prefixed,
                  IF ~prefixed THEN 0 ELSE IF Len(body) > 2 /\ body[3] = "_" THEN 3 ELSE 2)
        Sign(neg, body) ==
            Prefixed(neg, body,
                     /\ Len(body) >= 2
                     /\ body[2] \in {"x", "X", "o", "O", "b", "B"}
                     /\ DigitOf(body[1]) = 0)
        Stripped(t) ==
            Sign(t # <<>> /\ t[1] = "-", IF t # <<>> /\ t[1] \in {"+", "-"} THEN Tail(t) ELSE t)
        Between(at) == Stripped(IF at = {} THEN <<>> ELSE SubSeq(text, Min(at), Max(at)))
    IN  Between(Others(text, Blank \ {"U+001C", "U+001D", "U+001E", "U+001F"}))

\* '{' after "for ".  count > args.max_loop_count compares the two integers
\* in their decimal writing
DoBlockFor(s) ==
    LET Longer(a, b) == \/ Len(a) > Len(b)
                        \/ /\ Len(a) = Len(b)
                           /\ \E k \in 1..Len(a) : /\ Ord(a[k]) > Ord(b[k])
                                                   /\ \A j \in 1..(k - 1) : a[j] = b[j]
        Greater(count, max) ==
            \/ count[1] # "-" /\ max[1] = "-"
            \/ /\ (count[1] = "-") <=> (max[1] = "-")
               /\ Longer(IF count[1] = "-" THEN Tail(max) ELSE count,
                         IF count[1] = "-" THEN Tail(count) ELSE max)
        Counted(f, count, s1) ==
            IF ~count.ok
            THEN RaiseAt(s, f, "for loop count is not convertible to an integer", f.line_index)
            ELSE IF Strip(Drop(f.acc, 4 + Len(count.value))) # <<>>
            THEN RaiseAt(s, f, "expected a '{' after a for statement", f.line_index)
            ELSE IF s1.status # "running" THEN s1
            ELSE OpenBlock(s1, f, Cg(s).for \o <<" ">> \o count.value \o Cg(s).for_suffix,
                           FALSE)
        Parsed(f, count) ==
            Counted(f, count,
                    IF count.ok /\ Greater(count.value, StrInt(s.args.max_loop_count))
                    THEN warn_print(s, ProtoOf(s, f).src_file,
                                    "for loop count is greater than the safe maximum", f.line_index)
                    ELSE s)
        Scan(f) == Parsed(f, ParseInt(Drop(f.acc, 4)))
    IN  Scan(Scanned(s))

\* '{' after "fn "
DoBlockFn(s) ==
    LET f == Scanned(s)
    IN  RaiseAt(s, f, "fn definitions are not allowed inside fn bodies", f.line_index)

\* The lambda branch's search for the lambda's closing '}' from the 0-based
\* position i of its '{': the position of the first '}' that brings the
\* brace depth counted from i back to 0, or Len(fn_src)
LambdaEnd(fn_src, i) ==
    LET Depth(j) == Cardinality({k \in i..(j - 1) : fn_src[k + 1] = "{"})
                    - Cardinality({k \in i..(j - 1) : fn_src[k + 1] = "}"})
        closes == {j \in i..(Len(fn_src) - 1) : fn_src[j + 1] = "}" /\ Depth(j) - 1 = 0}
    IN  IF closes = {} THEN Len(fn_src) ELSE Min(closes)

\* The lambda branch's loop over the template arguments that follow the
\* lambda, from 0-based position i up to the ';': [err, i, l_acc, line_index].
\* The first character that is no blank must be a '('.
LambdaArgs(fn_src, i, line_index) ==
    LET ends == {k \in i..(Len(fn_src) - 1) : fn_src[k + 1] = ";"}
        end == IF ends = {} THEN Len(fn_src) ELSE Min(ends)
        plain == {k \in i..(end - 1) : fn_src[k + 1] \notin Blank}
        bad == plain # {} /\ fn_src[Min(plain) + 1] # "("
        stop == IF bad THEN Min(plain) ELSE IF i >= Len(fn_src) THEN i ELSE end
        text == SubSeq(fn_src, i + 1, stop)
        l_acc == Collapse(<<>>, text, TRUE)
    IN  [err |-> IF bad THEN "expected a ';' after a lambda definition"
                 ELSE IF ends # {} /\ HasChar(l_acc, "(") /\ ~HasChar(l_acc, ")")
                 THEN "unexpected ';' inside a template args closure"
                 ELSE "",
         i |-> stop, l_acc |-> l_acc,
         line_index |-> line_index + Cardinality({k \in 1..Len(text) : text[k] = NL})]

\* '{' after anything else: a lambda of this instance
DoBlockLambda(s) ==
    LET f == Scanned(s)
        fn_proto == ProtoOf(s, f)
        fn == s.instaciated_fns[f.comp]
        fn_name == fn.name \o <<"_","l","a","m","b","d","a","_","n">> \o StrInt(Len(fn.owning_lambdas))
        known == fn_name \in DOMAIN s.defined_fn_prototypes
        parsed == parse_fn(s.defined_fn_prototypes, s.args.dialect,
                           SrcOf(s, fn_proto.src_file), fn_proto.src_file,
                           f.line_index, <<fn>>)
        lambda_proto == IF known THEN s.defined_fn_prototypes[fn_name] ELSE parsed.proto[1]
        s1 == IF known THEN s
              ELSE [s EXCEPT !.defined_fn_prototypes = Put(@, fn_name, lambda_proto),
                             !.lambdas = @ \cup {fn_name}]
        close == LambdaEnd(f.fn_src, f.i)
        line1 == f.line_index + Newlines(f.fn_src, f.i, close)
        la == LambdaArgs(f.fn_src, close + 1, line1)
        tem == parse_template_args(la.l_acc)
        rest == IF tem.size # 0 THEN Drop(la.l_acc, tem.size + 1) ELSE Drop(la.l_acc, 1)
        lambda_call_loc ==
            CallLoc(fn_proto.name, lambda_proto.name, tem.args,
                    f.call_loc.template_arg_values \o fn.inherited_template_arg_values,
                    fn_proto.template_args \o fn.inherited_template_args,
                    f.call_loc.callee_commit_dest_fn, fn_proto.src_file, la.line_index)
        g == [f EXCEPT !.block_clousure_depth = @ + 1, !.i = la.i,
                       !.line_index = la.line_index, !.wait = <<[kind |-> "lambda"]>>]
    IN  IF ~known /\ parsed.err # ""
        THEN Raise(s, parsed.err, fn_proto.src_file, parsed.line)
        ELSE IF la.err # "" THEN RaiseAt(s1, f, la.err, la.line_index)
        ELSE IF tem.err # "" THEN RaiseAt(s1, f, tem.err, la.line_index)
        ELSE IF Strip(rest) # <<>>
        THEN RaiseAt(s1, f, "expected a ';' after a lambda definition", la.line_index)
        ELSE compile_fn(SetTop(s1, g), lambda_proto, lambda_call_loc)

\* The text a '}' appends at the depth it returns to: END, or the empty
\* else and END when the depth's last block is an if without else
CloseText(cg, is_last_end_if, depth) ==
    IF depth \notin DOMAIN is_last_end_if \/ ~is_last_end_if[depth]
    THEN Line(depth, cg.end)
    ELSE Line(depth, cg.else_) \o Line(depth, cg.end)

\* '}' that closes a block inside the body
DoCloseBlock(s) ==
    LET f == Scanned(s)
    IN  IF Strip(f.acc) # <<>>
        THEN RaiseAt(s, f, "unexpected expression before '}'", f.line_index)
        ELSE SetTop(s, [f EXCEPT !.acc = <<>>, !.i = @ + 1,
                                 !.depth = @ - 1,
                                 !.seg = @ \o CloseText(Cg(s), f.is_last_end_if, f.depth - 1),
                                 !.block_clousure_depth = @ - 1])

\* '}' that closes the body: the instance ends
DoEndFn(s) ==
    LET f == Scanned(s)
        seg == f.seg \o CloseText(Cg(s), f.is_last_end_if, f.depth - 1)
        fn == s.instaciated_fns[f.comp]
        s1 == [s EXCEPT !.instaciated_fns[f.comp].compiled_segments =
                            SaveSegment(fn.compiled_segments, f.cur_idx, seg \o <<NL>>)]
    IN  IF Strip(f.acc) # <<>>
        THEN RaiseAt(s, f, "unexpected expression before '}'", f.line_index)
        ELSE IF f.slice_stack_scopes # <<>>
        THEN RaiseAt(s, f, "stack slice(s) were not poped before ending scope", f.line_index)
        ELSE Return(SetTop(s1, [f EXCEPT !.acc = <<>>, !.depth = @ - 1, !.seg = seg,
                                         !.block_clousure_depth = @ - 1]))

\* The scan loop ends without the body's '}': an error when it stops at the
\* end of the text; past the end (a lambda that runs to the end of the
\* text) the segments saved so far are assembled
DoEof(s) ==
    LET f == Scanned(s)
    IN  IF f.i = Len(f.fn_src)
        THEN RaiseAt(s, f, "unexpected end of file, fn never closed", f.i - 1)
        ELSE Return(SetTop(s, f))

(***************************************************************************)
(* compile_fn: the statements, at a ';'.                                   *)
(***************************************************************************)

BuiltinKey(acc) == \E k \in 1..Len(FnKeys) : FnKeys[k] = acc

BuiltinFn(dialect, acc) == builtin_fns_of(dialect)[CHOOSE k \in 1..Len(FnKeys) : FnKeys[k] = acc]

\* The statement is over: acc is emptied and the scan goes on after the ';'
EndStmt(s, f) == SetTop(s, [f EXCEPT !.acc = <<>>, !.i = @ + 1])

EmitStmt(s, f, text) == EndStmt(s, [f EXCEPT !.seg = @ \o Line(f.depth, text)])

\* "++", "--", "", a primitive or no_op
DoStmtSimple(s) ==
    LET f == Scanned(s)
        acc == Strip(f.acc)
    IN  IF acc = <<"+","+">> THEN EmitStmt(s, f, BuiltinFn(s.args.dialect, <<"p","l","a","c","e">>))
        ELSE IF acc = <<"-","-">> THEN EmitStmt(s, f, BuiltinFn(s.args.dialect, <<"p","i","c","k">>))
        ELSE IF acc = <<>> THEN EndStmt(s, f)
        ELSE IF BuiltinKey(acc) THEN EmitStmt(s, f, BuiltinFn(s.args.dialect, acc))
        ELSE IF acc # <<"n","o","_","o","p">>
        THEN RaiseAt(s, f, "expected a ';' after a no_op keyword", f.line_index)
        ELSE EndStmt(s, f)

\* recall
DoStmtRecall(s) ==
    LET f == Scanned(s)
        acc == Strip(f.acc)
        fn_proto == ProtoOf(s, f)
        fn == s.instaciated_fns[f.comp]
        tem == parse_template_args(acc)
        rest == IF tem.size = 0 THEN Drop(acc, 6) ELSE Drop(acc, tem.size + 1)
        recall_loc ==
            CallLoc(fn_proto.name, fn_proto.name,
                    IF Len(tem.args) = 0 THEN f.call_loc.template_arg_values ELSE tem.args,
                    fn.inherited_template_arg_values, fn.inherited_template_args,
                    f.call_loc.callee_commit_dest_fn, fn_proto.src_file, f.line_index)
    IN  IF tem.err # "" THEN RaiseAt(s, f, tem.err, f.line_index)
        ELSE IF Strip(rest) # <<>>
        THEN RaiseAt(s, f, "expected a ';' after a recall keyword", f.line_index)
        ELSE compile_fn(SetTop(s, [f EXCEPT !.wait = <<[kind |-> "recall"]>>]),
                        fn_proto, recall_loc)

\* A faulty variant of commit: without a continuation the statement is
\* skipped and warn_print is not called
DoStmtCommitSilent(s) ==
    LET f == Scanned(s)
        acc == Strip(f.acc)
        fn_proto == ProtoOf(s, f)
        dest == f.call_loc.callee_commit_dest_fn
    IN  IF ~fn_proto.is_slice_valid
        THEN RaiseAt(s, f, "cannot use the commit keyword inside a non-slice fn", f.line_index)
        ELSE IF dest # <<>>
        THEN IF Strip(Drop(acc, 6)) # <<>>
             THEN RaiseAt(s, f, "expected a ';' after a commit keyword", f.line_index)
             ELSE EmitStmt(s, f, dest[1].comp_name)
        ELSE EndStmt(s, f)

\* A faulty variant of commit: the prototype may be any fn, slicing or not
DoStmtCommitAnyFn(s) ==
    LET f == Scanned(s)
        acc == Strip(f.acc)
        fn_proto == ProtoOf(s, f)
        dest == f.call_loc.callee_commit_dest_fn
        s1 == warn_print(s, fn_proto.src_file,
                         "commit keyword used while not pushing a stack slice", f.line_index)
    IN  IF dest # <<>>
        THEN IF Strip(Drop(acc, 6)) # <<>>
             THEN RaiseAt(s, f, "expected a ';' after a commit keyword", f.line_index)
             ELSE EmitStmt(s, f, dest[1].comp_name)
        ELSE IF s1.status # "running" THEN s1
        ELSE EndStmt(s1, f)

\* commit
DoStmtCommit(s) ==
    LET f == Scanned(s)
        acc == Strip(f.acc)
        fn_proto == ProtoOf(s, f)
        dest == f.call_loc.callee_commit_dest_fn
        s1 == warn_print(s, fn_proto.src_file,
                         "commit keyword used while not pushing a stack slice", f.line_index)
    IN  IF ~fn_proto.is_slice_valid
        THEN RaiseAt(s, f, "cannot use the commit keyword inside a non-slice fn", f.line_index)
        ELSE IF dest # <<>>
        THEN IF Strip(Drop(acc, 6)) # <<>>
             THEN RaiseAt(s, f, "expected a ';' after a commit keyword", f.line_index)
             ELSE EmitStmt(s, f, dest[1].comp_name)
        ELSE IF s1.status # "running" THEN s1
        ELSE EndStmt(s1, f)

\* The callee name and template arguments of "name" or "name(args)" in a
\* call or a push: [err, name, args]; after is the message when text
\* follows the call
ParseCallOf(acc, after, tem) ==
    IF HasChar(acc, "(") /\ ~HasChar(acc, ")")
    THEN [err |-> "unexpected ';' inside a template args closure",
          name |-> <<>>, args |-> <<>>]
    ELSE IF tem.err # "" THEN [err |-> tem.err, name |-> <<>>, args |-> <<>>]
    ELSE IF tem.size = 0
    THEN IF HasChar(acc, " ") THEN [err |-> after, name |-> <<>>, args |-> <<>>]
         ELSE [err |-> "", name |-> acc, args |-> tem.args]
    ELSE IF Strip(Drop(acc, tem.size + 1)) # <<>>
    THEN [err |-> after, name |-> <<>>, args |-> <<>>]
    ELSE [err |-> "", name |-> Strip(SplitHead(acc, <<"(">>)), args |-> tem.args]

ParseCall(acc, after) == ParseCallOf(acc, after, parse_template_args(acc))

InList(l, x) == \E k \in 1..Len(l) : l[k] = x

\* A faulty variant of push: the root-scope test is left out
DoStmtAssignAnywhere(s) ==
    LET f == Scanned(s)
        acc == Strip(f.acc)
        fn_proto == ProtoOf(s, f)
        slice_name == Strip(SplitHead(acc, <<"=">>))
        exp == Strip(SplitRest(acc, <<"=">>))
        call == ParseCall(Drop(exp, 5), "expected a ';' after a push fn call")
        cur == f.next_idx + 1
        comp_name == gen_comp_name(s.args.g, s.hashseed, fn_proto.name, f.call_loc, cur)
        commit_loc == [name |-> fn_proto.name \o <<"[","s","e","g","m","e","n","t",":">>
                                \o StrInt(cur) \o <<"]">>,
                       comp_name |-> comp_name]
        known == call.name \in DOMAIN s.defined_fn_prototypes
        push_loc == CallLoc(fn_proto.name, call.name, call.args, <<>>, <<>>,
                            <<commit_loc>>, fn_proto.src_file, f.line_index)
        g == [f EXCEPT !.comp_segment_stack = Append(@, f.cur_idx),
                       !.next_idx = cur, !.cur_idx = cur,
                       !.wait = <<[kind |-> "push", slice_name |-> slice_name,
                                   old_segment_index |-> f.cur_idx,
                                   comp_name |-> comp_name]>>]
    IN  IF HasChar(slice_name, " ")
        THEN RaiseAt(s, f, "stack slice names cannot contain spaces", f.line_index)
        ELSE IF ~StartsWith(exp, <<"p","u","s","h"," ">>)
        THEN RaiseAt(s, f, "stack slice assignment must use the 'push' keyword", f.line_index)
        ELSE IF call.err # "" THEN RaiseAt(s, f, call.err, f.line_index)
        ELSE IF InList(f.slice_stack_scopes, slice_name)
        THEN RaiseAt(s, f, "stack slice name already in use", f.line_index)
        ELSE IF ~known
        THEN RaiseAt(SetTop(s, g), f, "call to an undefined push fn", f.line_index)
        ELSE IF ~s.defined_fn_prototypes[call.name].is_slice_valid
        THEN RaiseAt(SetTop(s, g), f, "cannot push a non-slice fn", f.line_index)
        ELSE compile_fn(SetTop(s, g), s.defined_fn_prototypes[call.name], push_loc)

\* name = push callee
DoStmtAssign(s) ==
    LET f == Scanned(s)
        acc == Strip(f.acc)
        fn_proto == ProtoOf(s, f)
        slice_name == Strip(SplitHead(acc, <<"=">>))
        exp == Strip(SplitRest(acc, <<"=">>))
        call == ParseCall(Drop(exp, 5), "expected a ';' after a push fn call")
        cur == f.next_idx + 1
        comp_name == gen_comp_name(s.args.g, s.hashseed, fn_proto.name, f.call_loc, cur)
        commit_loc == [name |-> fn_proto.name \o <<"[","s","e","g","m","e","n","t",":">>
                                \o StrInt(cur) \o <<"]">>,
                       comp_name |-> comp_name]
        known == call.name \in DOMAIN s.defined_fn_prototypes
        push_loc == CallLoc(fn_proto.name, call.name, call.args, <<>>, <<>>,
                            <<commit_loc>>, fn_proto.src_file, f.line_index)
        g == [f EXCEPT !.comp_segment_stack = Append(@, f.cur_idx),
                       !.next_idx = cur, !.cur_idx = cur,
                       !.wait = <<[kind |-> "push", slice_name |-> slice_name,
                                   old_segment_index |-> f.cur_idx,
                                   comp_name |-> comp_name]>>]
    IN  IF HasChar(slice_name, " ")
        THEN RaiseAt(s, f, "stack slice names cannot contain spaces", f.line_index)
        ELSE IF ~StartsWith(exp, <<"p","u","s","h"," ">>)
        THEN RaiseAt(s, f, "stack slice assignment must use the 'push' keyword", f.line_index)
        ELSE IF call.err # "" THEN RaiseAt(s, f, call.err, f.line_index)
        ELSE IF InList(f.slice_stack_scopes, slice_name)
        THEN RaiseAt(s, f, "stack slice name already in use", f.line_index)
        ELSE IF f.depth # 1
        THEN RaiseAt(s, f, "stack slices can be only used on the root scope", f.line_index)
        ELSE IF ~known
        THEN RaiseAt(SetTop(s, g), f, "call to an undefined push fn", f.line_index)
        ELSE IF ~s.defined_fn_prototypes[call.name].is_slice_valid
        THEN RaiseAt(SetTop(s, g), f, "cannot push a non-slice fn", f.line_index)
        ELSE compile_fn(SetTop(s, g), s.defined_fn_prototypes[call.name], push_loc)

\* A faulty variant of the return to the parent segment: the segment stored
\* last is taken up instead of the parent's
LastSegment(segments, index) == segments[Len(segments)]

\* current_comp_segment = fn.compiled_segments[current_comp_segment_index]
ParentSegment(segments, index) == segments[index + 1]

\* pop name
DoStmtPop(s) ==
    LET f == Scanned(s)
        acc == Strip(Drop(Strip(f.acc), 4))
        fn == s.instaciated_fns[f.comp]
        segs == SaveSegment(fn.compiled_segments, f.cur_idx,
                            f.seg \o Cg(s).end \o <<NL, NL>>)
        back == f.comp_segment_stack[Len(f.comp_segment_stack)]
        s1 == [s EXCEPT !.instaciated_fns[f.comp].compiled_segments = segs]
    IN  IF HasChar(acc, " ")
        THEN RaiseAt(s, f, "expected ';' after a pop", f.line_index)
        ELSE IF InList(f.poped_stack_slices, acc)
        THEN RaiseAt(s, f, "stack slice already poped", f.line_index)
        ELSE IF ~InList(f.slice_stack_scopes, acc)
        THEN RaiseAt(s, f, "unknown stack slice", f.line_index)
        ELSE IF f.slice_stack_scopes[1] # acc
        THEN RaiseAt(s, f, "only the last pushed stack slice can be poped", f.line_index)
        ELSE IF f.depth # 1
        THEN RaiseAt(s, f, "stack slices can be only used on the root scope", f.line_index)
        ELSE EndStmt(s1, [f EXCEPT !.slice_stack_scopes = Tail(@),
                                   !.poped_stack_slices = Append(@, acc),
                                   !.cur_idx = back,
                                   !.comp_segment_stack = SubSeq(@, 1, Len(@) - 1),
                                   !.seg = ParentSegment(segs, back),
                                   !.depth = 1])

\* if, while or for followed by ';'
DoStmtBracketless(s) ==
    LET f == Scanned(s)
    IN  RaiseAt(s, f, "if, while, and for statements do not support bracket-less forms",
                f.line_index)

\* The continuation a plain call hands to its callee
CallContinuation(callee_fn, call_loc) ==
    IF callee_fn.is_slice_valid THEN call_loc.callee_commit_dest_fn ELSE <<>>

\* A faulty variant of the plain call: a callee that is not in the registry
\* is passed over, as if it were resolved when the whole file has been read
DoStmtCallUnchecked(s) ==
    LET f == Scanned(s)
        acc == Strip(f.acc)
        fn_proto == ProtoOf(s, f)
        call == ParseCall(acc, "expected a ';' after a fn call")
        known == call.name \in DOMAIN s.defined_fn_prototypes
        callee_fn == s.defined_fn_prototypes[call.name]
        fn_call_loc == CallLoc(fn_proto.name, call.name, call.args, <<>>, <<>>,
                               CallContinuation(callee_fn, f.call_loc),
                               fn_proto.src_file, f.line_index)
    IN  IF call.err # "" THEN RaiseAt(s, f, call.err, f.line_index)
        ELSE IF ~known THEN EndStmt(s, f)
        ELSE compile_fn(SetTop(s, [f EXCEPT !.wait = <<[kind |-> "call"]>>]),
                        callee_fn, fn_call_loc)

\* a fn call
DoStmtCall(s) ==
    LET f == Scanned(s)
        acc == Strip(f.acc)
        fn_proto == ProtoOf(s, f)
        call == ParseCall(acc, "expected a ';' after a fn call")
        known == call.name \in DOMAIN s.defined_fn_prototypes
        callee_fn == s.defined_fn_prototypes[call.name]
        fn_call_loc == CallLoc(fn_proto.name, call.name, call.args, <<>>, <<>>,
                               CallContinuation(callee_fn, f.call_loc),
                               fn_proto.src_file, f.line_index)
    IN  IF call.err # "" THEN RaiseAt(s, f, call.err, f.line_index)
        ELSE IF ~known THEN RaiseAt(s, f, "call to an undefined fn", f.line_index)
        ELSE compile_fn(SetTop(s, [f EXCEPT !.wait = <<[kind |-> "call"]>>]),
                        callee_fn, fn_call_loc)

(***************************************************************************)
(* compile_source_file and the main program.                               *)
(***************************************************************************)

\* What the file system holds at the path made of the components comps, taken
\* from the directory cur: "file", "dir", "none" when a component is missing
\* and "notdir" when a component that is not the last is a regular file
RECURSIVE Walk(_, _, _)
Walk(input, cur, comps) ==
    LET Step(files, next) ==
            IF next \in files
            THEN IF Len(comps) = 1 THEN "file" ELSE "notdir"
            ELSE IF \/ next = <<"/">>
                    \/ next = Cwd
                    \/ \E file \in files : StartsWith(file, next \o <<"/">>)
            THEN Walk(input, next, Tail(comps))
            ELSE "none"
        Parent(last) == IF last = 1 THEN <<"/">> ELSE Take(cur, last - 1)
    IN  IF comps = <<>> THEN "dir"
        ELSE Step(DOMAIN Files(input),
                  IF comps[1] \in {<<>>, <<".">>} THEN cur
                  ELSE IF comps[1] = <<".", ".">>
                  THEN Parent(Max({k \in 1..Len(cur) : cur[k] = "/"}))
                  ELSE IF cur = <<"/">> THEN cur \o comps[1]
                  ELSE cur \o <<"/">> \o comps[1])

\* os.stat(path), as far as exists and open look at it
Stat(s, path) ==
    IF path = <<>> THEN "none"
    ELSE Walk(s.args.input, IF StartsWith(path, <<"/">>) THEN <<"/">> ELSE Cwd, SplitSlash(path))

\* os.path.exists(path): a regular file or a directory
Exists(s, path) == Stat(s, path) \in {"file", "dir"}

\* The line the file loop looks at: blanks stripped, then the comment cut off
FileLine(s, f) == SplitHead(Strip(SrcOf(s, f.src_file)[f.i + 1]), <<"/","/">>)

\* compile_source_file(src_file, args), called by the activation on top of
\* the stack, up to the file loop; open(src_file) raises an OSError, which
\* nothing catches, unless the normalised path is a regular file
compile_source_file(s, src_file) ==
    LET s1 == [s EXCEPT !.source_file_compiled = Put(@, realpath(src_file), FALSE)]
        found == Stat(s, normpath(src_file))
    IN  IF Len(s.stack) >= MaxRecursion THEN Crash(s, "RecursionError")
        ELSE IF found = "none" THEN Crash(s1, "FileNotFoundError")
        ELSE IF found = "dir" THEN Crash(s1, "IsADirectoryError")
        ELSE IF found = "notdir" THEN Crash(s1, "NotADirectoryError")
        ELSE [s1 EXCEPT !.stack = Append(@, [kind |-> "file", src_file |-> normpath(src_file),
                                             i |-> 0, wait |-> <<>>])]

\* The loop of an import over import_paths from its k-th entry on, with the
\* file activation on top of the stack, and the rest of the import branch
RECURSIVE ImportLoop(_, _, _)
ImportLoop(s, k, found) ==
    LET f == Top(s)
        import_file == Strip(Drop(FileLine(s, f), 7))
        path == s.args.import_paths[k] \o <<"/">> \o import_file
    IN  IF k > Len(s.args.import_paths)
        THEN IF ~found
             THEN Raise(s, "source file to be imported not found", f.src_file, f.i)
             ELSE SetTop(s, [f EXCEPT !.i = @ + 1])
        ELSE IF ~Exists(s, path) THEN ImportLoop(s, k + 1, found)
        ELSE IF realpath(path) \notin DOMAIN s.source_file_compiled
        THEN compile_source_file(SetTop(s, [f EXCEPT !.wait = <<[kind |-> "import",
                                                                  k |-> k]>>]), path)
        ELSE IF s.source_file_compiled[realpath(path)] THEN ImportLoop(s, k + 1, TRUE)
        ELSE Raise(s, "cyclical import of source file", f.src_file, f.i)

\* An empty line or a comment
DoFileBlank(s) == SetTop(s, [Top(s) EXCEPT !.i = @ + 1])

\* import file
DoFileImport(s) == ImportLoop(s, 1, FALSE)

\* fn ...: the prototype is registered and, when it is top-level implicit,
\* compiled
DoFileFn(s) ==
    LET f == Top(s)
        parsed == parse_fn(s.defined_fn_prototypes, s.args.dialect, SrcOf(s, f.src_file),
                           f.src_file, f.i, <<>>)
        fn == parsed.proto[1]
        s1 == [s EXCEPT !.defined_fn_prototypes = Put(@, fn.name, fn)]
        skip == fn.ending_line_of_definition - fn.line_of_definition
        call_loc == CallLoc(<<"(","t","o","p","-","l","e","v","e","l",")">>, fn.name,
                            <<>>, <<>>, <<>>, <<>>, f.src_file, fn.line_of_definition)
    IN  IF parsed.err # "" THEN Raise(s, parsed.err, f.src_file, parsed.line)
        ELSE IF fn.top_level_implicit_usage
        THEN compile_fn(SetTop(s1, [f EXCEPT !.wait = <<[kind |-> "toplevel",
                                                         skip |-> skip]>>]), fn, call_loc)
        ELSE SetTop(s1, [f EXCEPT !.i = @ + skip + 1])

\* Any other line
DoFileBad(s) == Raise(s, "expression outside of a fn", Top(s).src_file, Top(s).i)

\* The end of the file: it is marked compiled and compile_source_file
\* returns, to the main program's loop or into an import
DoFileDone(s) ==
    LET f == Top(s)
        s1 == Pop([s EXCEPT !.source_file_compiled = Put(@, realpath(f.src_file), TRUE)])
        caller == Top(s1)
    IN  IF caller.kind = "main" THEN SetTop(s1, [caller EXCEPT !.k = @ + 1])
        ELSE ImportLoop(SetTop(s1, [caller EXCEPT !.wait = <<>>]), caller.wait[1].k + 1, TRUE)

\* The main program's loop over args.source_files
DoMainNext(s) ==
    LET f == Top(s)
        src_file == s.args.source_files[f.k + 1]
    IN  IF src_file \in DOMAIN s.source_file_compiled
        THEN SetTop(s, [f EXCEPT !.k = @ + 1])
        ELSE compile_source_file(s, src_file)

\* args.o, the output file's name: the default of -o
args_o == <<"o", "u", "t", ".", "k", "l">>

\* After the loop: the output file is opened, written and closed; exit 0.
\* open(args.o, 'w') raises an OSError, which nothing catches, when the name
\* is a directory's or leads through a regular file
DoMainWrite(s) ==
    LET found == Stat(s, args_o)
    IN  IF found = "dir" THEN Crash(s, "IsADirectoryError")
        ELSE IF found = "notdir" THEN Crash(s, "NotADirectoryError")
        ELSE [s EXCEPT !.out_file = Append(@, s.output_source), !.status = "ok", !.stack = <<>>]

(***************************************************************************)
(* The dispatch: which handler the running process executes next.          *)
(***************************************************************************)

BlockKind(acc) ==
    IF HasChar(acc, "=") THEN "block_assign"
    ELSE IF StartsWith(acc, <<"i","f"," ">>) THEN "block_if"
    ELSE IF StartsWith(acc, <<"e","l","s","e">>) THEN "block_else"
    ELSE IF StartsWith(acc, <<"w","h","i","l","e"," ">>) THEN "block_while"
    ELSE IF StartsWith(acc, <<"f","o","r"," ">>) THEN "block_for"
    ELSE IF StartsWith(acc, <<"f","n"," ">>) THEN "block_fn"
    ELSE "block_lambda"

StmtKind(acc0) ==
    LET acc == Strip(acc0)
    IN  IF acc \in {<<"+","+">>, <<"-","-">>, <<>>} \/ BuiltinKey(acc) \/ StartsWith(acc, <<"n","o","_","o","p">>)
        THEN "stmt_simple"
        ELSE IF StartsWith(acc, <<"r","e","c","a","l","l">>) THEN "stmt_recall"
        ELSE IF StartsWith(acc, <<"c","o","m","m","i","t">>) THEN "stmt_commit"
        ELSE IF HasChar(acc, "=") THEN "stmt_assign"
        ELSE IF StartsWith(acc, <<"p","o","p"," ">>) THEN "stmt_pop"
        ELSE IF StartsWith(acc, <<"i","f">>) \/ StartsWith(acc, <<"w","h","i","l","e">>) \/ StartsWith(acc, <<"f","o","r">>)
        THEN "stmt_bracketless"
        ELSE "stmt_call"

FileKind(s, f) ==
    IF f.i >= Len(SrcOf(s, f.src_file)) THEN "file_done"
    ELSE LET l == FileLine(s, f) IN
         IF l = <<>> THEN "file_blank"
         ELSE IF StartsWith(l, <<"i","m","p","o","r","t"," ">>) THEN "file_import"
         ELSE IF StartsWith(l, <<"f","n"," ">>) THEN "file_fn"
         ELSE "file_bad"

Kind(s) ==
    IF s.status # "running" THEN "halt"
    ELSE LET f == Top(s) IN
         IF f.kind = "main"
         THEN IF f.k < Len(s.args.source_files) THEN "main_next" ELSE "main_write"
         ELSE IF f.kind = "file" THEN FileKind(s, f)
         ELSE LET sc == ScanChars(f.fn_src, f.i, f.acc, f.line_index) IN
              IF sc.c = "EOF" THEN "eof"
              ELSE IF sc.c = "[" THEN "unresolved"
              ELSE IF sc.c = "{" THEN BlockKind(sc.acc)
              ELSE IF sc.c = "}"
                   THEN IF f.block_clousure_depth - 1 = 0 THEN "end_fn" ELSE "close_block"
              ELSE StmtKind(sc.acc)

(***************************************************************************)
(* The state machine: a run of the compiler on one input.                  *)
(***************************************************************************)

\* The -W levels: 0 none, 1 all, 2 err
WarningLevels == 0..2

\* The hash seeds of the runs: any two differ like two separate processes.
\* The first process runs under the first of them, the second under either.
HashSeeds == 1..2

\* argparse's namespace, and the input it was parsed from
Args(input, g, W, d) ==
    [g |-> g, W |-> W, dialect |-> d, max_loop_count |-> 65535,
     source_files |-> Corpus[input].argv,
     import_paths |-> <<<<".">>>> \o Corpus[input].I,
     input |-> input]

\* The process when the main program reaches its try block
Start(a, seed) ==
    [args |-> a, hashseed |-> seed,
     source_file_compiled |-> <<>>, defined_fn_prototypes |-> <<>>,
     instaciated_fns |-> <<>>, output_source |-> <<>>,
     stack |-> <<[kind |-> "main", k |-> 0]>>,
     status |-> "running", error |-> <<>>, printed |-> <<>>, out_file |-> <<>>,
     calls |-> {}, finished |-> <<>>, lambdas |-> {}]

\* The second process differs from the first in its hash seed, or in its
\* dialect, or in running under the next -W level, and in nothing else
Differs(seed, d, W, seed2, d2, W2) ==
    \/ (seed2 # seed /\ d2 = d /\ W2 = W)
    \/ (seed2 = seed /\ d2 # d /\ W2 = W)
    \/ (seed2 = seed /\ d2 = d /\ W2 = W + 1)

Init ==
    \E input \in 1..Len(Corpus), g \in BOOLEAN, W \in WarningLevels, d \in Dialects,
       seed \in {Min(HashSeeds)}, seed2 \in HashSeeds, d2 \in Dialects, W2 \in WarningLevels :
        LET st == Start(Args(input, g, W, d), seed)
        IN  /\ Differs(seed, d, W, seed2, d2, W2)
            /\ twin = Start(Args(input, g, W2, d2), seed2)
            /\ finished = st.finished
            /\ lambdas = st.lambdas
            /\ args = st.args
            /\ hashseed = st.hashseed
            /\ source_file_compiled = st.source_file_compiled
            /\ defined_fn_prototypes = st.defined_fn_prototypes
            /\ instaciated_fns = st.instaciated_fns
            /\ output_source = st.output_source
            /\ stack = st.stack
            /\ status = st.status
            /\ error = st.error
            /\ printed = st.printed
            /\ out_file = st.out_file
            /\ calls = st.calls

MainNext == Kind(Active) = "main_next" /\ Becomes(DoMainNext(Active))
MainWrite == Kind(Active) = "main_write" /\ Becomes(DoMainWrite(Active))
FileDone == Kind(Active) = "file_done" /\ Becomes(DoFileDone(Active))
FileBlank == Kind(Active) = "file_blank" /\ Becomes(DoFileBlank(Active))
FileImport == Kind(Active) = "file_import" /\ Becomes(DoFileImport(Active))
FileFn == Kind(Active) = "file_fn" /\ Becomes(DoFileFn(Active))
FileBad == Kind(Active) = "file_bad" /\ Becomes(DoFileBad(Active))
Eof == Kind(Active) = "eof" /\ Becomes(DoEof(Active))
Unresolved == Kind(Active) = "unresolved" /\ Becomes(DoUnresolved(Active))
BlockAssign == Kind(Active) = "block_assign" /\ Becomes(DoBlockAssign(Active))
BlockIf == Kind(Active) = "block_if" /\ Becomes(DoBlockIf(Active))
BlockElse == Kind(Active) = "block_else" /\ Becomes(DoBlockElse(Active))
BlockWhile == Kind(Active) = "block_while" /\ Becomes(DoBlockWhile(Active))
BlockFor == Kind(Active) = "block_for" /\ Becomes(DoBlockFor(Active))
BlockFn == Kind(Active) = "block_fn" /\ Becomes(DoBlockFn(Active))
BlockLambda == Kind(Active) = "block_lambda" /\ Becomes(DoBlockLambda(Active))
CloseBlock == Kind(Active) = "close_block" /\ Becomes(DoCloseBlock(Active))
EndFn == Kind(Active) = "end_fn" /\ Becomes(DoEndFn(Active))
StmtSimple == Kind(Active) = "stmt_simple" /\ Becomes(DoStmtSimple(Active))
StmtRecall == Kind(Active) = "stmt_recall" /\ Becomes(DoStmtRecall(Active))
StmtCommit == Kind(Active) = "stmt_commit" /\ Becomes(DoStmtCommit(Active))
StmtAssign == Kind(Active) = "stmt_assign" /\ Becomes(DoStmtAssign(Active))
StmtPop == Kind(Active) = "stmt_pop" /\ Becomes(DoStmtPop(Active))
StmtBracketless == Kind(Active) = "stmt_bracketless" /\ Becomes(DoStmtBracketless(Active))
StmtCall == Kind(Active) = "stmt_call" /\ Becomes(DoStmtCall(Active))

Next ==
    \/ MainNext \/ MainWrite
    \/ FileDone \/ FileBlank \/ FileImport \/ FileFn \/ FileBad
    \/ Eof \/ Unresolved
    \/ BlockAssign \/ BlockIf \/ BlockElse \/ BlockWhile \/ BlockFor \/ BlockFn \/ BlockLambda
    \/ CloseBlock \/ EndFn
    \/ StmtSimple \/ StmtRecall \/ StmtCommit \/ StmtAssign \/ StmtPop \/ StmtBracketless
    \/ StmtCall

Spec == Init /\ [][Next]_vars

(***************************************************************************)
(* Properties.  They speak of the first process; the second is the other   *)
(* run of a pair of runs.                                                  *)
(***************************************************************************)

\* Both processes have exited
BothExited == status # "running" /\ twin.status # "running"

\* The lines of a text that ends with a newline
TextLines(text) ==
    LET nls == {k \in 1..Len(text) : text[k] = NL}
    IN  [n \in 1..Cardinality(nls) |->
            SubSeq(text, (IF n = 1 THEN 1 ELSE Nth(nls, n - 1) + 1), Nth(nls, n) - 1)]

\* The depth of every line of a text: its leading blanks
Shape(text) ==
    LET lines == TextLines(text)
    IN  [n \in 1..Len(lines) |-> Len(lines[n]) - Len(LStrip(lines[n]))]

\* How often part stands in text at the start of a line
Occurrences(text, part) ==
    Cardinality({i \in 0..(Len(text) - Len(part)) :
                    /\ i = 0 \/ text[i] = NL
                    /\ SubSeq(text, i + 1, i + Len(part)) = part})

\* The segment list of an instance
Segments(c) == instaciated_fns[c].compiled_segments

\* The prototype of an instance
Prototype(c) == defined_fn_prototypes[instaciated_fns[c].name]

\* The name of segment k of an instance
SegmentName(c, k) ==
    gen_comp_name(args.g, hashseed, instaciated_fns[c].name,
                  [callee_commit_dest_fn |-> instaciated_fns[c].commit_fn,
                   template_arg_values |-> instaciated_fns[c].instance_template_args,
                   inherited_template_arg_values |->
                       instaciated_fns[c].inherited_template_arg_values], k)

\* The statements of an instance's body as its prototype's source file has them
BodyLines(c) ==
    LET fn_proto == Prototype(c)
        src == SrcOf(Cur, fn_proto.src_file)
    IN  [k \in 1..(fn_proto.ending_line_of_definition - fn_proto.line_of_definition - 1) |->
            Strip(CleanLine(src[fn_proto.line_of_definition + k + 1]))]

\* The body of c has the form  s = push C; pop s; X;  where the statements
\* X hold no further push or pop
PushPopX(c) ==
    /\ instaciated_fns[c].name \in DOMAIN defined_fn_prototypes
    /\ Len(BodyLines(c)) >= 3
    /\ Find(BodyLines(c)[1], <<"=", " ", "p", "u", "s", "h", " ">>, 0) > 0
    /\ StartsWith(BodyLines(c)[2], <<"p", "o", "p", " ">>)
    /\ \A k \in 3..Len(BodyLines(c)) :
           /\ BodyLines(c)[k] # <<>>
           /\ ~HasChar(BodyLines(c)[k], "=")
           /\ ~StartsWith(BodyLines(c)[k], <<"p", "o", "p", " ">>)

\* The lines that the primitive statements among X compile to
XPrimitives(c) ==
    {<<" ", " ", " ">> \o BuiltinFn(args.dialect, DropLast(BodyLines(c)[k], 1)) :
        k \in {j \in 3..Len(BodyLines(c)) : BuiltinKey(DropLast(BodyLines(c)[j], 1))}}

\* line is a call to an instance that was compiled with continuation dest
CallsWithContinuation(line, dest) ==
    /\ StartsWith(line, <<" ", " ", " ">>)
    /\ Drop(line, 3) \in DOMAIN instaciated_fns
    /\ instaciated_fns[Drop(line, 3)].commit_fn # <<>>
    /\ instaciated_fns[Drop(line, 3)].commit_fn[1].comp_name = dest

\* C1: two runs of the same command on the same files whose processes differ
\* only in their hash seed end the same way with byte-identical output buffers.
C1_Determinism ==
    (twin.args = args /\ BothExited)
        => (twin.status = status /\ twin.output_source = output_source)

\* C2: any two compile_fn calls whose keys differ have different emitted
\* names, with and without -g.
C2_MonomorphizationUniqueness ==
    \A a \in calls, b \in calls : a.key # b.key => a.comp_name # b.comp_name

\* C3: the number of instances created in the cache equals the number of
\* distinct keys compile_fn was called with.
C3_Memoization ==
    Cardinality(DOMAIN instaciated_fns) = Cardinality({a.key : a \in calls})

\* C4: every compile_fn invocation returns an instance or raises
\* CompileError: the process never ends with another exception, such as the
\* interpreter's RecursionError (the OSErrors are those of open() in
\* compile_source_file and in the main program, outside every compile_fn
\* invocation).
C4_Termination ==
    status = "crashed" =>
        error[1].message \in {"FileNotFoundError", "IsADirectoryError", "NotADirectoryError"}

\* C5: an instance that has finished compiling with k push/pop pairs in its
\* body has k+1 segments in its list, and each of them stands in the output
\* buffer exactly once.
C5_SegmentCount ==
    \A c \in DOMAIN finished :
        /\ Len(Segments(c)) = finished[c] + 1
        /\ \A k \in 1..Len(Segments(c)) :
               Occurrences(output_source, ToUpper(Segments(c)[k])) = 1

\* C6, as the code has it: for a body  s = push C; pop s; X;  the instance
\* has two segments.  The entry segment is the instance's name, the call to
\* C's instance that was compiled with segment 1 as its continuation, the
\* statements X and END.  Segment 1 is its name and END and nothing else.
C6_PushPopSplit ==
    \A c \in DOMAIN finished :
        PushPopX(c) =>
            /\ Len(Segments(c)) = 2
            /\ TextLines(Segments(c)[1]) = <<SegmentName(c, 1), Cg(Cur).end, <<>>>>
            /\ LET entry == TextLines(Segments(c)[2])
               IN  /\ Len(entry) >= 4
                   /\ entry[1] = c
                   /\ CallsWithContinuation(entry[2], SegmentName(c, 1))
                   /\ entry[Len(entry) - 1] = Cg(Cur).end
                   /\ entry[Len(entry)] = <<>>
                   /\ \A x \in XPrimitives(c) : \E j \in 3..(Len(entry) - 2) : entry[j] = x

\* An instance with such a body, X a primitive statement, has finished
C6_Witness ==
    status = "ok" /\ \E c \in DOMAIN finished : PushPopX(c) /\ XPrimitives(c) # {}

\* C6, as stated: segment 1 holds the statements X that follow the pop.
C6_Stated ==
    \A c \in DOMAIN finished :
        PushPopX(c) =>
            \A x \in XPrimitives(c) :
                \E j \in 2..Len(TextLines(Segments(c)[1])) : TextLines(Segments(c)[1])[j] = x

\* C7: every instance of a prototype that is not slicing has exactly one
\* segment in its list when its compilation has finished, whatever its body
\* holds.
C7_OneSegment ==
    \A c \in DOMAIN finished :
        (instaciated_fns[c].name \in DOMAIN defined_fn_prototypes
         /\ ~Prototype(c).is_slice_valid)
            => Len(Segments(c)) = 1

\* C8: between the scanner's steps, in every compile_fn activation that is
\* not inside a call, the segment depth counter equals the brace depth
\* counter and is not below 0.
C8_BracketInvariance ==
    \A k \in 1..Len(stack) :
        (stack[k].kind = "fn" /\ stack[k].wait = <<>>)
            => (stack[k].depth = stack[k].block_clousure_depth /\ stack[k].depth >= 0)

\* C9: two runs on the same files under the two dialects are both accepted
\* or both rejected, and what they write has the same lines at the same
\* depths.
C9_DialectNeutrality ==
    (twin.args.dialect # args.dialect /\ BothExited)
        => /\ twin.status = status
           /\ Shape(twin.output_source) = Shape(output_source)

\* C10: the output file is written at most once, and only by a process that
\* ends successfully with every source file given and every file imported
\* compiled; a process that failed has a non-zero exit code and has written
\* nothing; and no step writes the file but the successful end of the run.
C10_OutputOnce ==
    /\ [](/\ Len(out_file) <= 1
          /\ out_file # <<>> =>
                /\ status = "ok"
                /\ error = <<>>
                /\ out_file = <<output_source>>
                /\ \A k \in 1..Len(args.source_files) :
                       realpath(args.source_files[k]) \in DOMAIN source_file_compiled
                /\ \A f \in DOMAIN source_file_compiled : source_file_compiled[f]
          /\ status = "failed" => (out_file = <<>> /\ ExitCode(status) # 0 /\ error # <<>>))
    /\ [][out_file' # out_file => (status = "running" /\ status' = "ok" /\ out_file = <<>>)]_vars

\* A warning promoted by -W err has ended the run, after a fn was compiled
C10_Witness ==
    /\ status = "failed"
    /\ args.W = 2
    /\ error[1].message = "recall most likely causes an infinite loop"
    /\ output_source # <<>>
    /\ out_file = <<>>

\* C11: under -W err the first warning of the run ends it with a
\* CompileError that carries the warning's message and location, and no
\* warning is printed; -W none and -W all runs of the same command end the
\* same way with the same output buffer, registry and cache.
C11_WarningPolicy ==
    /\ args.W # 1 => printed = <<>>
    /\ (BothExited /\ twin.args.W # args.W) =>
          /\ args.W = 0 =>
                /\ twin.status = status
                /\ twin.error = error
                /\ twin.output_source = output_source
                /\ twin.defined_fn_prototypes = defined_fn_prototypes
                /\ twin.instaciated_fns = instaciated_fns
          /\ args.W = 1 =>
                IF printed = <<>>
                THEN twin.status = status /\ twin.error = error
                     /\ twin.output_source = output_source
                ELSE twin.status = "failed" /\ twin.error = <<printed[1]>>

\* A run under -W none and its -W all counterpart, which printed a warning,
\* have both ended successfully
C11_Witness ==
    /\ BothExited
    /\ args.W = 0
    /\ twin.args.W = 1
    /\ twin.printed # <<>>
    /\ status = "ok"
    /\ output_source # <<>>

\* C12: a compile_fn call whose number of template values differs from the
\* number of template parameters of the callee's prototype ends the run with
\* the CompileError 'incorrect number of template args', whatever the
\* prototype and whether or not the instance is cached.
C12_TemplateArity ==
    \A a \in calls :
        a.given # a.params
            => /\ status = "failed"
               /\ error[1].message = "incorrect number of template args"

\* The prototype is a lambda: parse_fn created it for a lambda_owner.  A fn
\* declared under the name of a lambda is none, also when the lambda branch
\* takes it from the registry.
IsLambda(fn_proto) == fn_proto.name \in lambdas

\* C13: a prototype is top-level-implicit iff it has no template parameters,
\* no slicing marker and is not a lambda, and after a successful run the
\* output holds exactly one subroutine headed by the upper-cased name of
\* every such prototype.
C13_TopLevelImplicit ==
    \A n \in DOMAIN defined_fn_prototypes :
        LET fn_proto == defined_fn_prototypes[n] IN
        /\ fn_proto.top_level_implicit_usage
              <=> (/\ fn_proto.template_args = <<>>
                   /\ ~fn_proto.is_slice_valid
                   /\ ~IsLambda(fn_proto))
        /\ (status = "ok" /\ fn_proto.top_level_implicit_usage)
              => Occurrences(output_source, ToUpper(fn_proto.name) \o <<NL>>) = 1

\* The slice name of the pop statement the first process is about to run
PopName == Strip(Drop(Strip(Scanned(Cur).acc), 4))

\* The slice name of the push statement the first process is about to run
PushName == Strip(SplitHead(Strip(Scanned(Cur).acc), <<"=">>))

\* The active slices of the activation on top of the first process's stack,
\* the last one pushed first
ActiveSlices == Top(Cur).slice_stack_scopes

\* C14: a pop is accepted only of the slice pushed last among those not yet
\* popped, and then that slice is no longer active; every other pop ends the
\* run with a CompileError, and so do a push under the name of an active
\* slice and the end of the scan of a body that has active slices: when the
\* scan of a body ends and the run goes on, no slice is active.  In every
\* activation the active slices have different names, none of them is among
\* the popped ones, and there is one suspended segment for each of them.
C14_SliceLifo ==
    /\ [](\A k \in 1..Len(stack) :
             stack[k].kind = "fn" =>
                LET f == stack[k]
                    pushing == IF f.wait # <<>> /\ f.wait[1].kind = "push" THEN 1 ELSE 0
                IN  /\ \A i, j \in 1..Len(f.slice_stack_scopes) :
                           f.slice_stack_scopes[i] = f.slice_stack_scopes[j] => i = j
                    /\ \A i \in 1..Len(f.slice_stack_scopes) :
                           ~InList(f.poped_stack_slices, f.slice_stack_scopes[i])
                    /\ Len(f.comp_segment_stack) = Len(f.slice_stack_scopes) + pushing)
    /\ [][
           /\ (Kind(Cur) = "stmt_pop" /\ (ActiveSlices = <<>> \/ ActiveSlices[1] # PopName))
                => (status' = "failed" /\ error' # <<>>)
           /\ (Kind(Cur) = "stmt_pop" /\ status' = "running")
                => stack'[Len(stack')].slice_stack_scopes = Tail(ActiveSlices)
           /\ (Kind(Cur) = "stmt_assign" /\ InList(ActiveSlices, PushName))
                => (status' = "failed" /\ error' # <<>>)
           /\ (Kind(Cur) \in {"end_fn", "eof"} /\ ActiveSlices # <<>>)
                => (status' = "failed" /\ error' # <<>>)
           /\ (Kind(Cur) \in {"end_fn", "eof"} /\ status' = "running")
                => (ActiveSlices = <<>> /\ Top(Cur).comp_segment_stack = <<>>)
       ]_vars

\* C15: a push or pop statement scanned while the segment depth is greater
\* than 1 ends the run with a CompileError, and the step creates, saves and
\* switches no segment: the cache, the output and every activation are as
\* they were before it.
C15_RootScope ==
    [][(Kind(Cur) \in {"stmt_assign", "stmt_pop"} /\ Scanned(Cur).depth > 1)
          => /\ status' = "failed"
             /\ error' # <<>>
             /\ instaciated_fns' = instaciated_fns
             /\ output_source' = output_source
             /\ stack' = stack]_vars

\* A pop inside a block of the body that pushed the slice has ended the run
C15_Witness ==
    /\ status = "failed"
    /\ error[1].message = "stack slices can be only used on the root scope"
    /\ Top(Cur).kind = "fn"
    /\ Top(Cur).depth = 2
    /\ Top(Cur).slice_stack_scopes # <<>>
    /\ Top(Cur).cur_idx = 1

\* The first process is about to run a commit statement
AtCommit == Kind(Cur) = "stmt_commit"

\* The prototype of the activation on top of the first process's stack
TopProto == ProtoOf(Cur, Top(Cur))

\* The continuation of that activation, <<>> for none
Continuation == Top(Cur).call_loc.callee_commit_dest_fn

\* The text of the commit statement after its keyword
CommitRest == Strip(Drop(Strip(Scanned(Cur).acc), 6))

\* The step adds exactly one line, a call of name at the current depth, to
\* the current segment and lets the run go on
EmitsCall(name) ==
    /\ status' = "running"
    /\ stack'[Len(stack')].seg = Top(Cur).seg \o Line(Top(Cur).depth, name)
    /\ printed' = printed

\* The step emits nothing and warn_print is called with message: it returns
\* under -W none, prints under -W all and raises under -W err
WarnsOnly(message) ==
    /\ args.W = 0 => (status' = "running" /\ printed' = printed)
    /\ args.W = 1 => /\ status' = "running"
                     /\ Len(printed') = Len(printed) + 1
                     /\ printed'[Len(printed')].message = message
    /\ args.W = 2 => (status' = "failed" /\ error'[1].message = message)
    /\ status' = "running" => stack'[Len(stack')].seg = Top(Cur).seg

\* The step ends the run with the CompileError message and emits nothing
FailsWith(message) ==
    /\ status' = "failed"
    /\ error'[1].message = message
    /\ stack' = stack
    /\ printed' = printed

\* C16 (amended): a bare commit statement in an instance, a lambda's
\* included, of a prototype whose is_slice_valid is set emits exactly one
\* call of the continuation's emitted name at the current depth when the
\* instance has a continuation, and emits nothing and calls warn_print when
\* it has none; in an instance of a prototype whose is_slice_valid is not
\* set it emits nothing and raises CompileError.
C16_CommitRule ==
    [][(AtCommit /\ CommitRest = <<>>) =>
         IF TopProto.is_slice_valid
         THEN IF Continuation # <<>>
              THEN EmitsCall(Continuation[1].comp_name)
              ELSE WarnsOnly("commit keyword used while not pushing a stack slice")
         ELSE FailsWith("cannot use the commit keyword inside a non-slice fn")]_vars

\* A commit in a lambda of a pushed slicing fn has emitted the call of the
\* continuation
C16_Witness ==
    /\ status = "running"
    /\ Top(Cur).kind = "fn"
    /\ IsLambda(TopProto)
    /\ Continuation # <<>>
    /\ TakeLast(Top(Cur).seg, Len(Line(1, Continuation[1].comp_name)))
           = Line(1, Continuation[1].comp_name)

\* C16 (as stated): every commit statement either emits exactly one call of
\* the continuation's emitted name, the prototype being slicing and the
\* continuation non-null, or emits nothing and raises a warning.
C16_Stated ==
    [][AtCommit =>
         IF TopProto.is_slice_valid /\ Continuation # <<>>
         THEN EmitsCall(Continuation[1].comp_name)
         ELSE WarnsOnly("commit keyword used while not pushing a stack slice")]_vars

\* C17: a commit(args) statement in an instance of a slicing prototype with
\* a continuation is accepted, and it emits the call of the continuation's
\* emitted name as the bare commit does.
C17_CommitWithArgs ==
    [][(/\ AtCommit
        /\ TopProto.is_slice_valid
        /\ Continuation # <<>>
        /\ StartsWith(CommitRest, <<"(">>)
        /\ CommitRest[Len(CommitRest)] = ")")
          => EmitsCall(Continuation[1].comp_name)]_vars

\* The callee of the push statement the first process is about to run
PushCallee ==
    ParseCall(Drop(Strip(SplitRest(Strip(Scanned(Cur).acc), <<"=">>)), 5), "").name

\* C18: a commit statement in an instance of a prototype that is not slicing
\* ends the run with a CompileError under every -W level, with or without a
\* continuation, and a push of a fn that is undefined or not slicing ends
\* the run with a CompileError and is no compile_fn call: no call is
\* recorded, no instance is created, nothing is emitted and no activation
\* starts.
C18_OnlySlicing ==
    [][
       /\ (AtCommit /\ ~TopProto.is_slice_valid)
             => FailsWith("cannot use the commit keyword inside a non-slice fn")
       /\ (/\ Kind(Cur) = "stmt_assign"
           /\ \/ PushCallee \notin DOMAIN defined_fn_prototypes
              \/ ~defined_fn_prototypes[PushCallee].is_slice_valid)
             => (/\ status' = "failed"
                 /\ error' # <<>>
                 /\ calls' = calls
                 /\ instaciated_fns' = instaciated_fns
                 /\ output_source' = output_source
                 /\ Len(stack') = Len(stack))
      ]_vars

\* A commit statement in an instance that has a continuation and whose
\* prototype is not slicing has ended the run, under -W none
C18_Witness ==
    /\ status = "failed"
    /\ error[1].message = "cannot use the commit keyword inside a non-slice fn"
    /\ args.W = 0
    /\ Top(Cur).kind = "fn"
    /\ ~TopProto.is_slice_valid
    /\ Continuation # <<>>

\* The push of a fn that is defined and not slicing has ended the run, and
\* the fn was compiled by the top-level pass only
PushRefused ==
    /\ status = "failed"
    /\ error[1].message = "cannot push a non-slice fn"
    /\ Top(Cur).kind = "fn"
    /\ \A a \in calls : a.key.continuation = <<>>
    /\ Cardinality(calls) = 2

\* C19: each canonical source path is compiled at most once per run: a
\* compilation starts only for a path that is neither in progress nor done,
\* and a path that is done stays done.
C19_ImportDriver ==
    [][
       /\ \A path \in DOMAIN source_file_compiled :
              source_file_compiled[path]
                 => (path \in DOMAIN source_file_compiled' /\ source_file_compiled'[path])
       /\ (Len(stack') = Len(stack) + 1 /\ stack'[Len(stack')].kind = "file")
              => realpath(stack'[Len(stack')].src_file) \notin DOMAIN source_file_compiled
      ]_vars

\* The words of the target language the dialect d can emit: the primitives,
\* the codegen keywords and condition atoms, and the word that follows the
\* end keyword in the else keyword
TgtLexemes(d) ==
    {builtin_fns_of(d)[k] : k \in 1..Len(builtin_fns_of(d))}
        \cup {CgValues(builtin_cg_keywords_of(d))[k] :
                 k \in 1..Len(CgValues(builtin_cg_keywords_of(d)))}
        \cup {SplitRest(builtin_cg_keywords_of(d).else_, <<",", " ">>)}

\* C20: no prototype that parse_fn accepted from a top-level definition has
\* a name that equals, case-insensitively, a word the active dialect can
\* emit, and no instance is emitted under such a word.
C20_ReservedNames ==
    /\ \A n \in DOMAIN defined_fn_prototypes :
           ~IsLambda(defined_fn_prototypes[n]) => ToUpper(n) \notin TgtLexemes(args.dialect)
    /\ \A c \in DOMAIN instaciated_fns : ToUpper(c) \notin TgtLexemes(args.dialect)

\* The name of the fn declared by the line the first process's file loop is at
DeclaredName == FnHeader(SrcOf(Cur, Top(Cur).src_file)[Top(Cur).i + 1]).name

\* The auto-name of the lambda the first process is about to parse
LambdaName ==
    instaciated_fns[Top(Cur).comp].name \o <<"_","l","a","m","b","d","a","_","n">>
        \o StrInt(Len(instaciated_fns[Top(Cur).comp].owning_lambdas))

\* The registry holds a prototype under the lambda's auto-name that was not
\* parsed from the lambda the first process is at
LambdaNameTaken ==
    /\ LambdaName \in DOMAIN defined_fn_prototypes
    /\ \/ defined_fn_prototypes[LambdaName].line_of_definition # Scanned(Cur).line_index
       \/ defined_fn_prototypes[LambdaName].src_file # TopProto.src_file

\* C21: a fn declaration under a name the registry holds, and a lambda
\* whose auto-name the registry holds for a prototype from another source
\* range, end the run with the redefinition CompileError.
C21_RegistryUniqueness ==
    [][
       /\ (Kind(Cur) = "file_fn" /\ DeclaredName \in DOMAIN defined_fn_prototypes)
             => (status' = "failed" /\ error' # <<>>)
       /\ (Kind(Cur) = "block_lambda" /\ LambdaNameTaken)
             => (status' = "failed" /\ error' # <<>>)
      ]_vars

\* The callee of the plain call the first process is about to run
CallName == ParseCall(Strip(Scanned(Cur).acc), "").name

\* The continuation the claim gives the callee of that call: the calling
\* instance's own if the callee's prototype is slicing, none otherwise
Propagated ==
    IF defined_fn_prototypes[CallName].is_slice_valid THEN Continuation ELSE <<>>

\* C22: a plain call compiles its callee, or takes it from the cache, with
\* the calling instance's continuation when the callee's prototype is
\* slicing and with none otherwise; every cached instance of a prototype
\* that is neither slicing nor a lambda has no continuation.
C22_ContinuationPropagation ==
    /\ [](\A c \in DOMAIN instaciated_fns :
             LET fn_proto == defined_fn_prototypes[instaciated_fns[c].name]
             IN  (~fn_proto.is_slice_valid /\ ~IsLambda(fn_proto))
                    => instaciated_fns[c].commit_fn = <<>>)
    /\ [][(Kind(Cur) = "stmt_call" /\ status' = "running")
            => IF Len(stack') = Len(stack) + 1
               THEN /\ stack'[Len(stack')].call_loc.callee_commit_dest_fn = Propagated
                    /\ instaciated_fns'[stack'[Len(stack')].comp].commit_fn = Propagated
               ELSE \E c \in DOMAIN instaciated_fns :
                       /\ instaciated_fns[c].commit_fn = Propagated
                       /\ stack'[Len(stack')].seg
                             = Top(Cur).seg \o Line(Top(Cur).depth, c)]_vars

\* The prototype that lexically encloses the lambda prototype fn_proto, at
\* the outermost level
Enclosing(fn_proto) ==
    defined_fn_prototypes[SplitHead(fn_proto.name, <<"_","l","a","m","b","d","a","_","n">>)]

\* C23: a lambda is compiled with the continuation of the instance that
\* encloses it, and a commit statement in a lambda of a slicing fn emits the
\* call of that continuation when there is one and raises the warning when
\* there is none.
C23_LambdaContinuation ==
    [][
       /\ (/\ Kind(Cur) = "block_lambda"
           /\ status' = "running"
           /\ Len(stack') = Len(stack) + 1)
             => stack'[Len(stack')].call_loc.callee_commit_dest_fn = Continuation
       /\ (AtCommit /\ IsLambda(TopProto) /\ Enclosing(TopProto).is_slice_valid)
             => IF Continuation # <<>>
                THEN EmitsCall(Continuation[1].comp_name)
                ELSE WarnsOnly("commit keyword used while not pushing a stack slice")
      ]_vars

\* The instance a lambda step compiles or takes from the cache
LambdaInstance ==
    IF Len(stack') = Len(stack) + 1
    THEN stack'[Len(stack')].comp
    ELSE LET owning == instaciated_fns'[Top(Cur).comp].owning_lambdas
         IN  owning[Len(owning)]

\* The template parameters in scope where a lambda is written, and the
\* values the instance being compiled binds to them
EnclosingParams ==
    TopProto.template_args \o instaciated_fns[Top(Cur).comp].inherited_template_args
EnclosingValues ==
    Top(Cur).call_loc.template_arg_values
       \o instaciated_fns[Top(Cur).comp].inherited_template_arg_values

\* C24: the inherited parameters and inherited values of every instance
\* have equal length; the instance a lambda statement calls carries the
\* parameters in scope and the values the enclosing instance binds to them,
\* and no [p] of a parameter in scope is left in its body.
C24_LambdaInheritance ==
    /\ [](\A c \in DOMAIN instaciated_fns :
             Len(instaciated_fns[c].inherited_template_args)
                = Len(instaciated_fns[c].inherited_template_arg_values))
    /\ [][(Kind(Cur) = "block_lambda" /\ status' = "running")
            => /\ instaciated_fns'[LambdaInstance].inherited_template_args = EnclosingParams
               /\ instaciated_fns'[LambdaInstance].inherited_template_arg_values
                     = EnclosingValues
               /\ Len(stack') = Len(stack) + 1
                     => \A k \in 1..Len(EnclosingParams) :
                           Occurrences(stack'[Len(stack')].fn_src,
                                       <<"[">> \o EnclosingParams[k] \o <<"]">>) = 0]_vars

\* The template values a recall statement asks for: the parsed arguments,
\* or the current instance's values when none are given
RecallArgs == parse_template_args(Strip(Scanned(Cur).acc)).args
RecallValues ==
    IF Len(RecallArgs) = 0 THEN Top(Cur).call_loc.template_arg_values ELSE RecallArgs

\* Instance c of fns has the key of the recall: the current prototype,
\* continuation and inherited bindings, and the values asked for
RecallKey(fns, c) ==
    /\ fns[c].name = TopProto.name
    /\ fns[c].commit_fn = Continuation
    /\ fns[c].instance_template_args = RecallValues
    /\ fns[c].inherited_template_args
          = instaciated_fns[Top(Cur).comp].inherited_template_args
    /\ fns[c].inherited_template_arg_values
          = instaciated_fns[Top(Cur).comp].inherited_template_arg_values

\* The recall statement is well formed: the step raises no syntax error
RecallAccepted ==
    /\ Kind(Cur) = "stmt_recall"
    /\ status' # "crashed"
    /\ status' = "failed"
          => error'[1].message = "recall most likely causes an infinite loop"

\* The step emits the call of name at the current depth; at depth 1
\* warn_print is called, at any other depth it is not
RecallEmits(name) ==
    LET emitted == stack'[Len(stack')].seg = Top(Cur).seg \o Line(Top(Cur).depth, name)
    IN  IF Top(Cur).depth # 1 THEN EmitsCall(name)
        ELSE /\ args.W = 0 => (status' = "running" /\ printed' = printed /\ emitted)
             /\ args.W = 1 => /\ status' = "running" /\ emitted
                              /\ Len(printed') = Len(printed) + 1
                              /\ printed'[Len(printed')].message
                                    = "recall most likely causes an infinite loop"
             /\ args.W = 2 => status' = "failed"

\* C25: a well-formed recall statement calls the instance with the current
\* prototype, continuation and inherited bindings and the values asked for:
\* either that instance is new and its compilation starts, which needs
\* arguments, or it is cached, its emitted name is called at the current
\* depth (the current instance's own name when no arguments are given, and
\* no instance is created) and warn_print is called iff the depth is 1.
C25_Recall ==
    [][RecallAccepted
         => IF Len(stack') = Len(stack) + 1
            THEN /\ RecallKey(instaciated_fns', stack'[Len(stack')].comp)
                 /\ Len(RecallArgs) # 0
            ELSE /\ instaciated_fns' = instaciated_fns
                 /\ \E c \in DOMAIN instaciated_fns :
                       /\ RecallKey(instaciated_fns, c)
                       /\ Len(RecallArgs) = 0 => c = Top(Cur).comp
                       /\ RecallEmits(c)]_vars

\* The step ends the compilation of the instance on top of the stack
Finishes == Kind(Cur) \in {"end_fn", "eof"} /\ finished' # finished

\* The text the step appends to the output buffer
Appended == SubSeq(output_source', Len(output_source) + 1, Len(output_source'))

\* The emitted name of segment k of the instance on top of the stack
SegmentHeader(k) ==
    (IF k = 0 THEN Top(Cur).comp ELSE SegmentName(Top(Cur).comp, k)) \o <<NL>>

\* C26, as the code has it: when the compilation of an instance ends with
\* the segments 0..k in its list, these k+1 segments are appended to the
\* output buffer upper-cased and in one piece, the continuation segments
\* first, in descending index order, and the entry segment last.
C26_SegmentOrder ==
    [][Finishes
         => LET segs == instaciated_fns'[Top(Cur).comp].compiled_segments
                n == Len(segs)
            IN  /\ Appended = ToUpper(Join(segs))
                /\ \A j \in 1..n : StartsWith(segs[j], SegmentHeader(n - j))]_vars

\* An instance with three segments stands in the output buffer
C26_Witness ==
    \E c \in DOMAIN finished :
        /\ finished[c] = 2
        /\ Occurrences(output_source, ToUpper(c \o <<NL>>)) = 1
        /\ Occurrences(output_source, ToUpper(SegmentName(c, 2) \o <<NL>>)) = 1

\* C26, as stated: the entry segment is first in the output buffer and the
\* continuation segments follow it in the order of their pushes.
C26_Stated ==
    [][Finishes
         => LET segs == instaciated_fns'[Top(Cur).comp].compiled_segments
                n == Len(segs)
            IN  /\ Appended = ToUpper(Join(segs))
                /\ \A j \in 1..n : StartsWith(segs[j], SegmentHeader(j - 1))]_vars

\* The instances whose compilation has begun and not ended when the
\* instance on top of the stack ends: the activations below it
Enclosers == {stack[k].comp : k \in {j \in 1..(Len(stack) - 1) : stack[j].kind = "fn"}}

\* C27, as the code has it: the output buffer only grows at its end, and an
\* instance's segments are appended when its compilation ends, so that the
\* instances stand in the output in the order their compilations end: an
\* instance first referenced from inside the body of X stands before X.
C27_CompletionOrder ==
    /\ [][/\ Len(output_source') >= Len(output_source)
           /\ SubSeq(output_source', 1, Len(output_source)) = output_source
           /\ output_source' # output_source => Finishes]_vars
    /\ [][Finishes
            => LET segs == instaciated_fns'[Top(Cur).comp].compiled_segments
               IN  /\ segs # <<>> => /\ Appended # <<>>
                                     /\ StartsWith(Appended, ToUpper(segs[1]))
                   /\ \A x \in Enclosers : x \notin DOMAIN finished']_vars

\* An instance whose compilation began inside the body of another one
\* stands in the output while the other one is still being compiled
C27_Witness ==
    /\ status = "running"
    /\ \E k \in 1..Len(stack) : \E c \in DOMAIN finished :
          /\ stack[k].kind = "fn"
          /\ stack[k].comp \notin DOMAIN finished
          /\ Occurrences(stack[k].seg, Line(1, c)) = 1
          /\ Occurrences(output_source, ToUpper(c \o <<NL>>)) = 1
          /\ Occurrences(output_source, ToUpper(stack[k].comp \o <<NL>>)) = 0

\* C27, as stated: an instance that was first referenced before another one
\* stands before it, so that when an instance's segments are appended the
\* segments of the instances whose body referenced it are in the output.
C27_Stated ==
    [][Finishes
         => \A x \in Enclosers :
               Occurrences(output_source', ToUpper(x \o <<NL>>)) >= 1]_vars

\* The text that the close of an if without else leaves at the end of the
\* segment, at the depth of the activation on top of the stack
IfClose == Line(Top(Cur).depth, Cg(Cur).else_) \o Line(Top(Cur).depth, Cg(Cur).end)

\* The last thing emitted at the current depth is the close of an if that
\* has no else yet
AfterIfClose ==
    /\ Len(Top(Cur).seg) > Len(IfClose)
    /\ TakeLast(Top(Cur).seg, Len(IfClose)) = IfClose

\* The body of b is the body of a with an empty else added to one of its ifs
EmptyElseAdded(a, b) ==
    \E k \in 1..Len(BodyLines(a)) :
        /\ BodyLines(a)[k] = <<"}">>
        /\ BodyLines(b) = SubSeq(BodyLines(a), 1, k - 1)
                             \o << <<"}"," ","e","l","s","e"," ","{">>, <<"}">> >>
                             \o SubSeq(BodyLines(a), k + 1, Len(BodyLines(a)))

\* C28: an else is accepted if and only if the segment ends with the close
\* of an if without else at the current depth; an accepted else takes back
\* that close's END line, so that IF, the then-body and one ELSE remain, and
\* the else block's close adds one END; an if without else compiles to the
\* text of the same if with an empty else.
C28_IfElse ==
    /\ [][
          /\ (Kind(Cur) = "block_else" /\ status' = "running") => AfterIfClose
          /\ (Kind(Cur) = "block_else" /\ AfterIfClose
                 /\ Strip(Drop(Scanned(Cur).acc, 4)) = <<>>)
                => /\ status' = "running"
                   /\ stack'[Len(stack')].seg \o Line(Top(Cur).depth, Cg(Cur).end)
                         = Top(Cur).seg
                   /\ stack'[Len(stack')].depth = Top(Cur).depth + 1
                   /\ ~stack'[Len(stack')].is_last_end_if[Top(Cur).depth]
          /\ (/\ Kind(Cur) = "close_block"
              /\ status' = "running"
              /\ (Top(Cur).depth - 1) \in DOMAIN Top(Cur).is_last_end_if
              /\ ~Top(Cur).is_last_end_if[Top(Cur).depth - 1])
                => stack'[Len(stack')].seg
                      = Top(Cur).seg \o Line(Top(Cur).depth - 1, Cg(Cur).end)
         ]_vars
    /\ [](\A a \in DOMAIN finished : \A b \in DOMAIN finished :
             (/\ instaciated_fns[a].name \in DOMAIN defined_fn_prototypes
              /\ instaciated_fns[b].name \in DOMAIN defined_fn_prototypes
              /\ EmptyElseAdded(a, b))
                => Tail(TextLines(Segments(a)[1])) = Tail(TextLines(Segments(b)[1])))

\* The step is at a statement that reads n; or n(args); where n is a
\* registered prototype and args has as many values as n has parameters
AtCallOf ==
    /\ Kind(Cur) \in {"stmt_simple", "stmt_recall", "stmt_commit", "stmt_assign",
                      "stmt_pop", "stmt_bracketless", "stmt_call"}
    /\ LET call == ParseCall(Strip(Scanned(Cur).acc), "")
       IN  /\ call.err = ""
           /\ call.name \in DOMAIN defined_fn_prototypes
           /\ Len(call.args) = Len(defined_fn_prototypes[call.name].template_args)

\* C29: a statement n; with n a registered prototype and the right number
\* of template arguments is dispatched as a plain call, whatever n starts
\* with: the compilation of an instance of n starts, or the emitted name of
\* a cached instance of n is called at the current depth.
C29_CallDispatch ==
    [][AtCallOf
         => /\ Kind(Cur) = "stmt_call"
            /\ status' = "running"
                 => IF Len(stack') = Len(stack) + 1
                    THEN stack'[Len(stack')].proto = CallName
                    ELSE \E c \in DOMAIN instaciated_fns :
                            /\ instaciated_fns[c].name = CallName
                            /\ stack'[Len(stack')].seg
                                  = Top(Cur).seg \o Line(Top(Cur).depth, c)]_vars

\* The header lines of the subroutines in a text, by their line numbers:
\* the lines that start at the margin and are not the END keyword
HeaderLines(text) ==
    {n \in 1..Len(TextLines(text)) :
        /\ TextLines(text)[n] # <<>>
        /\ TextLines(text)[n][1] # " "
        /\ TextLines(text)[n] # ToUpper(Cg(Cur).end)}

\* C30: after a successful run no two subroutines of the output buffer
\* have the same header line.
C30_DistinctHeaders ==
    status = "ok"
       => \A i \in HeaderLines(output_source) : \A j \in HeaderLines(output_source) :
             i # j => TextLines(output_source)[i] # TextLines(output_source)[j]

\* The file an import statement names, and the entries of the search path
\* whose directory holds it
ImportFile == Strip(Drop(FileLine(Cur, Top(Cur)), 7))
ImportPath(k) == args.import_paths[k] \o <<"/">> \o ImportFile
Matches == {k \in 1..Len(args.import_paths) : Exists(Cur, ImportPath(k))}

\* The file activation on top of the stack was started by an import
Imported ==
    /\ Len(stack) >= 2
    /\ stack[Len(stack) - 1].kind = "file"
    /\ stack[Len(stack) - 1].wait # <<>>
    /\ stack[Len(stack) - 1].wait[1].kind = "import"

\* C31: the file an import statement starts to compile is the match in the
\* first directory of the search path that holds it, and when the imported
\* file ends the import statement is over: no other file is started for it.
C31_ImportFirstMatch ==
    [][
       /\ (Kind(Cur) = "file_import" /\ Len(stack') = Len(stack) + 1)
             => /\ Matches # {}
                /\ stack'[Len(stack')].src_file
                      = normpath(ImportPath(CHOOSE k \in Matches : \A j \in Matches : k <= j))
       /\ (Kind(Cur) = "file_done" /\ Imported /\ status' = "running")
             => Len(stack') = Len(stack) - 1
      ]_vars

\* The file of the prototype being compiled declares fn name after the end
\* of that prototype
DeclaredLater(name) ==
    LET src == SrcOf(Cur, TopProto.src_file)
    IN  \E l \in (TopProto.ending_line_of_definition + 2)..Len(src) :
           /\ StartsWith(CleanLine(src[l]), <<"f","n"," ">>)
           /\ FnHeader(src[l]).name = name

\* C32: while an instance of a top-level-implicit prototype is compiled the
\* registry holds no prototype of its file that is declared after its end,
\* so that a plain call or a push in its body of a fn declared later ends
\* the run with the 'undefined fn' CompileError.
C32_DeclarationOrder ==
    /\ [](\A k \in 1..Len(stack) :
             (stack[k].kind = "fn" /\ ProtoOf(Cur, stack[k]).top_level_implicit_usage)
                => \A n \in DOMAIN defined_fn_prototypes :
                      defined_fn_prototypes[n].src_file = ProtoOf(Cur, stack[k]).src_file
                         => defined_fn_prototypes[n].line_of_definition
                               <= ProtoOf(Cur, stack[k]).ending_line_of_definition)
    /\ [][
          /\ (/\ Kind(Cur) = "stmt_call"
              /\ TopProto.top_level_implicit_usage
              /\ ParseCall(Strip(Scanned(Cur).acc), "").err = ""
              /\ DeclaredLater(CallName))
                => FailsWith("call to an undefined fn")
          /\ (/\ Kind(Cur) = "stmt_assign"
              /\ TopProto.top_level_implicit_usage
              /\ DeclaredLater(PushCallee))
                => /\ status' = "failed"
                   /\ instaciated_fns' = instaciated_fns
         ]_vars

\* The run has ended at a plain call, in a top-level-implicit prototype, of
\* a fn that the file declares later
C32_Witness ==
    /\ status = "failed"
    /\ error[1].message = "call to an undefined fn"
    /\ Top(Cur).kind = "fn"
    /\ TopProto.top_level_implicit_usage
    /\ DeclaredLater(CallName)

\* The emitted name of segment i of instance c, as the first line of its text
HeaderOf(c, i) == (IF i = 0 THEN c ELSE SegmentName(c, i)) \o <<NL>>

\* The step saves a text that starts with text as segment i of instance c:
\* the list has at least i entries, the text goes to position i (counted
\* from 0) and no other position changes
Saved(c, i, text) ==
    LET old == instaciated_fns[c].compiled_segments
        new == instaciated_fns'[c].compiled_segments
    IN  /\ Len(old) >= i
        /\ Len(new) = (IF Len(old) > i THEN Len(old) ELSE i + 1)
        /\ StartsWith(new[i + 1], text)
        /\ \A j \in 1..Len(old) : j # i + 1 => new[j] = old[j]

\* The activation below the top one is in a push and the top one ends
PushReturns ==
    /\ Finishes
    /\ Len(stack) >= 2
    /\ stack[Len(stack) - 1].kind = "fn"
    /\ stack[Len(stack) - 1].wait # <<>>
    /\ stack[Len(stack) - 1].wait[1].kind = "push"

\* C33: in every instance that is being compiled position i of the segment
\* list holds the text of segment i; a push saves the segment it leaves, and
\* a pop the segment it ends, at the position of its index, which the list
\* has or is next to have; after a pop the current text is the one saved
\* for the index taken from the segment-index stack; at the end of the body
\* the list has a position for the current segment or is next to have it.
C33_SegmentSlots ==
    /\ [](\A k \in 1..Len(stack) :
             stack[k].kind = "fn"
                => LET segs == instaciated_fns[stack[k].comp].compiled_segments
                   IN  /\ Len(segs) <= stack[k].next_idx + 1
                       /\ \A j \in 1..Len(segs) :
                              StartsWith(segs[j], HeaderOf(stack[k].comp, j - 1)))
    /\ [][
          /\ (Kind(Cur) = "stmt_assign" /\ status' = "running" /\ Len(stack') = Len(stack))
                => /\ Saved(Top(Cur).comp, Top(Cur).cur_idx, Top(Cur).seg)
                   /\ stack'[Len(stack')].seg
                         = HeaderOf(Top(Cur).comp, stack'[Len(stack')].cur_idx)
          /\ (PushReturns /\ status' = "running")
                => /\ Saved(stack[Len(stack) - 1].comp,
                            stack[Len(stack) - 1].wait[1].old_segment_index,
                            stack[Len(stack) - 1].seg)
                   /\ stack'[Len(stack')].seg
                         = HeaderOf(stack[Len(stack) - 1].comp, stack'[Len(stack')].cur_idx)
          /\ (Kind(Cur) = "stmt_pop" /\ status' = "running")
                => /\ Saved(Top(Cur).comp, Top(Cur).cur_idx, Top(Cur).seg)
                   /\ Top(Cur).comp_segment_stack # <<>>
                   /\ stack'[Len(stack')].cur_idx
                         = Top(Cur).comp_segment_stack[Len(Top(Cur).comp_segment_stack)]
                   /\ stack'[Len(stack')].seg
                         = instaciated_fns'[Top(Cur).comp].compiled_segments[
                              stack'[Len(stack')].cur_idx + 1]
          /\ (Kind(Cur) = "end_fn" /\ Finishes)
                => /\ Len(instaciated_fns[Top(Cur).comp].compiled_segments)
                         >= Top(Cur).cur_idx
                   /\ LET new == instaciated_fns'[Top(Cur).comp].compiled_segments
                      IN  StartsWith(new[Len(new) - Top(Cur).cur_idx], Top(Cur).seg)
         ]_vars

\* An instance with nested and sequential pushes is being compiled: it is
\* back in its entry segment and the list holds all its segments
C33_Witness ==
    /\ status = "running"
    /\ \E k \in 1..Len(stack) :
          /\ stack[k].kind = "fn"
          /\ stack[k].next_idx >= 3
          /\ stack[k].cur_idx = 0
          /\ Len(instaciated_fns[stack[k].comp].compiled_segments) = stack[k].next_idx + 1
====
